---------------------------- MODULE Spec2Model ----------------------------
(***************************************************************************)
(* Model of the contract-compliance engine (AdvancedComparator) and of the *)
(* risk-zone classifier (determine_risk_zone) of legal_traffic_light_v51.  *)
(*                                                                         *)
(* Conventions                                                             *)
(*  - A Python str is a sequence of characters, each a string.  The       *)
(*    module language has no non-ASCII string literals, so a Cyrillic      *)
(*    letter is written as its Latin transliteration followed by "~"       *)
(*    ("p~" for the letter pe): no Cyrillic letter equals a Latin one.     *)
(*  - A Python float in [0,1] is a fixed-point integer in units of         *)
(*    1/Scale, rounded down.  Sums of weighted metrics are kept in units   *)
(*    of 1/(100*Scale) so that the weights 0.15 and 0.20 are exact.        *)
(*  - A Python dict is a sequence of <<key, value>> pairs in insertion     *)
(*    order (dicts iterate in insertion order).                            *)
(*  - re.search / re.match are modelled for the pattern shapes the model   *)
(*    uses: the three heading patterns of extract_sections, and risk       *)
(*    patterns that are literal strings.                                   *)
(*  - A dict with fixed keys (a typical form, a template section, a rule,  *)
(*    a report) is a record; None is the tuple <<"None">>.                 *)
(*  - The float sums of cosine_similarity run over sets and over dicts     *)
(*    built from sets, whose iteration order follows the interpreter's     *)
(*    string hash seed.  A seed is an order of the tokens (hash_secret);   *)
(*    each addition is rounded to MantissaBits bits, to nearest even, as   *)
(*    a double is to 53.  compliance_score is an exact fraction.           *)
(*  - The Russian texts of a ZoneResult are English phrases; a text that   *)
(*    embeds a field of the input is the sequence of its parts.            *)
(*  - A call of full_comparison is a frame: pc goes idle, loop (one step   *)
(*    per template section), done (the report is returned), idle.          *)
(***************************************************************************)
EXTENDS Integers, Sequences, FiniteSets, TLC

----------------------------------------------------------------------------
(* Characters and the str methods the source uses *)

LatinLower == <<"a","b","c","d","e","f","g","h","i","j","k","l","m",
                "n","o","p","q","r","s","t","u","v","w","x","y","z">>
LatinUpper == <<"A","B","C","D","E","F","G","H","I","J","K","L","M",
                "N","O","P","Q","R","S","T","U","V","W","X","Y","Z">>
CyrillicLower == <<"a~","b~","v~","g~","d~","e~","yo~","zh~","z~","i~","j~",
                  "k~","l~","m~","n~","o~","p~","r~","s~","t~","u~","f~","h~",
                  "c~","ch~","sh~","shch~","hard~","y~","soft~","eh~","yu~","ya~">>
CyrillicUpper == <<"A~","B~","V~","G~","D~","E~","YO~","ZH~","Z~","I~","J~",
                  "K~","L~","M~","N~","O~","P~","R~","S~","T~","U~","F~","H~",
                  "C~","CH~","SH~","SHCH~","HARD~","Y~","SOFT~","EH~","YU~","YA~">>
LowerSeq == LatinLower \o CyrillicLower
UpperSeq == LatinUpper \o CyrillicUpper
LowerLetters == {LowerSeq[i] : i \in 1..Len(LowerSeq)}
UpperLetters == {UpperSeq[i] : i \in 1..Len(UpperSeq)}
Letters == LowerLetters \cup UpperLetters
Digits == {"0","1","2","3","4","5","6","7","8","9"}
NL == "\n"
WhiteSpace == {" ", NL, "\t"}
WordChars == Letters \cup Digits \cup {"_"}

SetMin(S) == CHOOSE x \in S : \A y \in S : x <= y
SetMax(S) == CHOOSE x \in S : \A y \in S : x >= y
MinOf(a, b) == IF a <= b THEN a ELSE b
MaxOf(a, b) == IF a >= b THEN a ELSE b

LowerChar(c) ==
    IF c \in UpperLetters
    THEN LowerSeq[CHOOSE k \in 1..Len(UpperSeq) : UpperSeq[k] = c]
    ELSE c
UpperChar(c) ==
    IF c \in LowerLetters
    THEN UpperSeq[CHOOSE k \in 1..Len(LowerSeq) : LowerSeq[k] = c]
    ELSE c

(* str.lower(), str.upper() *)
str_lower(s) == [i \in 1..Len(s) |-> LowerChar(s[i])]
str_upper(s) == [i \in 1..Len(s) |-> UpperChar(s[i])]

(* str.strip(): leading and trailing whitespace removed *)
str_strip(s) ==
    LET keep == {i \in 1..Len(s) : s[i] \notin WhiteSpace}
    IN  IF keep = {} THEN << >> ELSE SubSeq(s, SetMin(keep), SetMax(keep))

(* s[:n] *)
str_prefix(s, n) == SubSeq(s, 1, MinOf(n, Len(s)))

(* str.split(sep) for a one-character separator: always at least one part *)
RECURSIVE str_split(_, _)
str_split(s, sep) ==
    LET at == {i \in 1..Len(s) : s[i] = sep}
    IN  IF at = {} THEN <<s>>
        ELSE <<SubSeq(s, 1, SetMin(at) - 1)>>
             \o str_split(SubSeq(s, SetMin(at) + 1, Len(s)), sep)

(* str.split() without argument: the maximal runs of non-whitespace *)
RECURSIVE str_split_ws(_)
str_split_ws(s) ==
    LET t == str_strip(s)
        ws == {i \in 1..Len(t) : t[i] \in WhiteSpace}
    IN  IF t = << >> THEN << >>
        ELSE IF ws = {} THEN <<t>>
        ELSE <<SubSeq(t, 1, SetMin(ws) - 1)>>
             \o str_split_ws(SubSeq(t, SetMin(ws) + 1, Len(t)))

(* sep.join(parts) *)
RECURSIVE str_join(_, _)
str_join(parts, sep) ==
    IF parts = << >> THEN << >>
    ELSE IF Len(parts) = 1 THEN parts[1]
    ELSE parts[1] \o sep \o str_join(Tail(parts), sep)

(* the 0-based positions at which the literal p occurs in s *)
Occurrences(p, s) ==
    {i \in 0..(Len(s) - Len(p)) : SubSeq(s, i + 1, i + Len(p)) = p}

(* p in s *)
str_contains(s, p) == Occurrences(p, s) # {}

SeqRange(xs) == {xs[i] : i \in 1..Len(xs)}

(* the nearest integer to the square root of an integer *)
RECURSIVE ISqrtIn(_, _, _)
ISqrtIn(n, lo, hi) ==
    IF lo >= hi THEN lo
    ELSE LET mid == (lo + hi + 1) \div 2
         IN  IF mid * mid <= n THEN ISqrtIn(n, mid, hi) ELSE ISqrtIn(n, lo, mid - 1)
ISqrt(n) == ISqrtIn(n, 0, 46340)

(* A float keeps a fixed number of significant bits: 53 in Python, MantissaBits
   here.  RoundFloat(x) is x rounded to them, to nearest and ties to even *)
MantissaBits == 12
RECURSIVE UlpOf(_)
UlpOf(x) == IF x < 2^MantissaBits THEN 1 ELSE 2 * UlpOf(x \div 2)
RoundToUnit(x, unit) ==
    IF 2 * (x % unit) > unit \/ (2 * (x % unit) = unit /\ (x \div unit) % 2 = 1)
    THEN (x \div unit + 1) * unit
    ELSE (x \div unit) * unit
RoundFloat(x) == RoundToUnit(x, UlpOf(x))

(* math.sqrt: the float nearest to the square root of n, one of lower and
   lower + unit, the multiples of unit around it *)
SqrtToUnit(n, lower, unit, mid) ==
    IF unit = 1 THEN (IF n - lower * lower > lower THEN lower + 1 ELSE lower)
    ELSE IF n > mid * mid \/ (n = mid * mid /\ (lower \div unit) % 2 = 1)
    THEN lower + unit
    ELSE lower
SqrtNear(n, floor, unit) ==
    SqrtToUnit(n, (floor \div unit) * unit, unit, (floor \div unit) * unit + unit \div 2)
math_sqrt(n) == SqrtNear(n, ISqrt(n), UlpOf(ISqrt(n)))

(* sum(terms): the terms are added from left to right and every partial sum
   is rounded, so the result depends on their order *)
RECURSIVE FloatSumFrom(_, _)
FloatSumFrom(acc, terms) ==
    IF terms = << >> THEN acc
    ELSE FloatSumFrom(RoundFloat(acc + Head(terms)), Tail(terms))
float_sum(terms) == FloatSumFrom(0, terms)

(* Iterating a set of str: the order follows the hashes of the strings, which
   the interpreter salts with a seed drawn when the process starts.  A seed is
   modelled by the order it gives to the tokens: a sequence of all of them *)
IterationOrder(S, hash_seed) == SelectSeq(hash_seed, LAMBDA t : t \in S)

(* one unit of a float in [0,1] is 1/Scale *)
Scale == 100 * 100

----------------------------------------------------------------------------
(* AdvancedComparator: tokenisation and the similarity metrics *)

(* STOP_WORDS, in the character convention of the header *)
STOP_WORDS ==
    { <<"i~">>, <<"v~">>, <<"n~","a~">>, <<"p~","o~">>, <<"s~">>,
      <<"k~">>, <<"o~">>, <<"o~","t~">>, <<"i~","z~">>, <<"z~","a~">>,
      <<"d~","l~","ya~">>, <<"n~","e~">>, <<"ch~","t~","o~">>,
      <<"k~","a~","k~">>, <<"eh~","t~","o~">>, <<"v~","s~","e~">>,
      <<"i~","l~","i~">>, <<"p~","r~","i~">>, <<"d~","o~">>,
      <<"b~","e~","z~">>, <<"e~","g~","o~">>, <<"e~","yo~">>,
      <<"i~","h~">>, <<"b~","y~","t~","soft~">>,
      <<"k~","o~","t~","o~","r~","y~","j~">>,
      <<"t~","a~","k~","zh~","e~">>, <<"m~","e~","zh~","d~","u~">>,
      <<"p~","o~","s~","l~","e~">>, <<"p~","e~","r~","e~","d~">>,
      <<"ch~","e~","r~","e~","z~">>, <<"b~","o~","l~","e~","e~">>,
      <<"m~","e~","n~","e~","e~">>, <<"a~">>, <<"n~","o~">>,
      <<"d~","a~">>, <<"zh~","e~">>, <<"l~","i~">>, <<"b~","y~">>,
      <<"t~","o~">>, <<"n~","i~">>, <<"e~","s~","l~","i~">>,
      <<"ch~","e~","m~">> }

(* re.sub(r'[^\w\s...]', ' ', text): every character that is neither a word
   character nor whitespace becomes a space *)
ReplaceNonWord(s) ==
    [i \in 1..Len(s) |-> IF s[i] \in WordChars \cup WhiteSpace THEN s[i] ELSE " "]

KeepToken(t) == Len(t) > 2 /\ t \notin STOP_WORDS

tokenize(text) ==
    IF text = << >> THEN << >>
    ELSE SelectSeq(str_split_ws(ReplaceNonWord(str_lower(text))), KeepToken)

(* the set of the n-grams of a token list *)
get_ngrams(tokens, n) ==
    IF Len(tokens) < n THEN {}
    ELSE {SubSeq(tokens, i, i + n - 1) : i \in 1..(Len(tokens) - n + 1)}

jaccard_similarity(set1, set2) ==
    IF set1 = {} \/ set2 = {} THEN 0
    ELSE LET intersection == Cardinality(set1 \cap set2)
             union == Cardinality(set1 \cup set2)
         IN  IF union > 0 THEN (intersection * Scale) \div union ELSE 0

overlap_coefficient(set1, set2) ==
    IF set1 = {} \/ set2 = {} THEN 0
    ELSE LET intersection == Cardinality(set1 \cap set2)
             min_size == MinOf(Cardinality(set1), Cardinality(set2))
         IN  IF min_size > 0 THEN (intersection * Scale) \div min_size ELSE 0

(* difflib.SequenceMatcher(None, a, b): the longest matching block of
   a[alo..ahi-1] and b[blo..bhi-1] (0-based, as in difflib), the one starting
   earliest in a and then earliest in b; no element is junk for strings
   shorter than 200 characters *)
RECURSIVE CommonRun(_, _, _, _, _, _)
CommonRun(a, b, i, j, ahi, bhi) ==
    IF i < ahi /\ j < bhi /\ a[i + 1] = b[j + 1]
    THEN 1 + CommonRun(a, b, i + 1, j + 1, ahi, bhi)
    ELSE 0

(* run: <<i, j>> -> the length of the common run that starts there *)
LongestAt(run, best, bestI) ==
    <<bestI, SetMin({p[2] : p \in {q \in DOMAIN run : run[q] = best /\ q[1] = bestI}}), best>>

LongestOf(run, alo, blo, best) ==
    IF best = 0 THEN <<alo, blo, 0>>
    ELSE LongestAt(run, best, SetMin({p[1] : p \in {q \in DOMAIN run : run[q] = best}}))

LongestIn(run, alo, blo) ==
    LongestOf(run, alo, blo, SetMax({run[p] : p \in DOMAIN run} \cup {0}))

find_longest_match(a, b, alo, ahi, blo, bhi) ==
    LongestIn([p \in (alo..(ahi - 1)) \X (blo..(bhi - 1)) |->
                  CommonRun(a, b, p[1], p[2], ahi, bhi)],
              alo, blo)

(* the total size of get_matching_blocks(): the longest block m = <<i, j, k>>,
   then the blocks to its left and to its right *)
RECURSIVE MatchingSize(_, _, _, _, _, _)
RECURSIVE MatchingAround(_, _, _, _, _, _, _)
MatchingAround(a, b, alo, ahi, blo, bhi, m) ==
    IF m[3] = 0 THEN 0
    ELSE m[3]
         + MatchingSize(a, b, alo, m[1], blo, m[2])
         + MatchingSize(a, b, m[1] + m[3], ahi, m[2] + m[3], bhi)

MatchingSize(a, b, alo, ahi, blo, bhi) ==
    IF alo >= ahi \/ blo >= bhi THEN 0
    ELSE MatchingAround(a, b, alo, ahi, blo, bhi,
                        find_longest_match(a, b, alo, ahi, blo, bhi))

(* SequenceMatcher.ratio() = 2.0 * matches / (len(a) + len(b)) *)
SequenceMatcherRatio(a, b) ==
    IF Len(a) + Len(b) = 0 THEN Scale
    ELSE (2 * MatchingSize(a, b, 0, Len(a), 0, Len(b)) * Scale) \div (Len(a) + Len(b))

levenshtein_ratio(s1, s2) ==
    IF s1 = << >> \/ s2 = << >> THEN 0
    ELSE SequenceMatcherRatio(str_lower(s1), str_lower(s2))

CountOf(tokens, k) == Cardinality({i \in 1..Len(tokens) : tokens[i] = k})

(* Counter(tokens): token -> count / len(tokens); a dict is a function *)
compute_tf(tokens) ==
    [k \in SeqRange(tokens) |-> (CountOf(tokens, k) * Scale) \div Len(tokens)]

(* math.log(x) for the arguments compute_idf meets with two documents:
   (n_docs + 1) / (count + 1) is 3/2 or 3/3 *)
LnThreeHalves == 4054
math_log(num, den) == IF num = den THEN 0 ELSE LnThreeHalves

compute_idf(documents) ==
    LET n_docs == Len(documents)
        allTokens == UNION {SeqRange(documents[d]) : d \in 1..n_docs}
        df == [t \in allTokens |->
                 Cardinality({d \in 1..n_docs : t \in SeqRange(documents[d])})]
    IN  [t \in allTokens |-> math_log(n_docs + 1, df[t] + 1) + Scale]

DictGet(d, k, default) == IF k \in DOMAIN d THEN d[k] ELSE default

(* n / d in units of 1/Scale, rounded to the significant bits of a float:
   q and r are the quotient and the remainder of n by d *)
RoundRemainder(q, r, d, unit) ==
    IF 2 * ((q % unit) * d + r) > unit * d
       \/ (2 * ((q % unit) * d + r) = unit * d /\ (q \div unit) % 2 = 1)
    THEN (q \div unit + 1) * unit
    ELSE (q \div unit) * unit
RoundQuotient(n, d) == RoundRemainder(n \div d, n % d, d, UlpOf(n \div d))
(* x / y for two floats that are multiples of u *)
FloatRatio(x, y, u) == RoundQuotient((x \div u) * Scale, y \div u)

(* dot_product / (norm1 * norm2) if norm1 > 0 and norm2 > 0 else 0.0: the
   product and the quotient are rounded as floats are *)
CosineOf(dot_product, norm1, norm2) ==
    IF norm1 > 0 /\ norm2 > 0
    THEN FloatRatio(dot_product, RoundFloat(norm1 * norm2),
                    MinOf(UlpOf(dot_product), UlpOf(norm1 * norm2)))
    ELSE 0

(* vec1.get(k, 0) * vec2.get(k, 0) for k in all_keys *)
Products(vec1, vec2, all_keys) ==
    [i \in 1..Len(all_keys) |->
        DictGet(vec1, all_keys[i], 0) * DictGet(vec2, all_keys[i], 0)]

(* v ** 2 for v in vec.values() *)
Squares(vec, keys) == [i \in 1..Len(keys) |-> vec[keys[i]] * vec[keys[i]]]

(* vec1, vec2 in units of 1/Scale; the dot product and the squared norms in
   units of 1/Scale^2.  vec1 and vec2 are dicts built from a set of tokens and
   all_keys is a set: all three are iterated in the order of hash_seed *)
cosine_similarity(vec1, vec2, hash_seed) ==
    IF DOMAIN vec1 = {} \/ DOMAIN vec2 = {} THEN 0
    ELSE CosineOf(
             float_sum(Products(vec1, vec2,
                 IterationOrder(DOMAIN vec1 \cup DOMAIN vec2, hash_seed))),
             math_sqrt(float_sum(Squares(vec1, IterationOrder(DOMAIN vec1, hash_seed)))),
             math_sqrt(float_sum(Squares(vec2, IterationOrder(DOMAIN vec2, hash_seed)))))

(* [kw for kw in keywords if kw.lower() in text_lower] *)
MatchedKeywords(text_lower, keywords) ==
    SelectSeq(keywords, LAMBDA kw : str_contains(text_lower, str_lower(kw)))

KeywordScore(matched, keywords) ==
    <<(Len(matched) * Scale) \div Len(keywords), matched>>

(* <<score, matched>> *)
keyword_match_score(text, keywords) ==
    IF keywords = << >> THEN <<0, << >> >>
    ELSE KeywordScore(MatchedKeywords(str_lower(text), keywords), keywords)

----------------------------------------------------------------------------
(* AdvancedComparator.extract_sections *)

(* None *)
None == <<"None">>

(* a dict as a sequence of <<key, value>> pairs in insertion order *)
DictKeys(d) == [i \in 1..Len(d) |-> d[i][1]]
DictHas(d, k) == \E i \in 1..Len(d) : d[i][1] = k
DictAt(d, k) == d[CHOOSE i \in 1..Len(d) : d[i][1] = k][2]
(* d[k] = v: an existing key keeps its place and takes the new value *)
DictSet(d, k, v) ==
    IF DictHas(d, k)
    THEN [i \in 1..Len(d) |-> IF d[i][1] = k THEN <<k, v>> ELSE d[i]]
    ELSE Append(d, <<k, v>>)

(* the length of the run of characters of Class that starts at s[from] *)
RunLen(s, from, Class) ==
    LET stop == {i \in from..Len(s) : s[i] \notin Class}
    IN  IF from > Len(s) THEN 0
        ELSE IF stop = {} THEN Len(s) - from + 1
        ELSE SetMin(stop) - from

NoMatch == [matched |-> FALSE, group1 |-> << >>, group2 |-> << >>]

(* re.match(r'(\d+)\.\s*([A-Z][A-Z\s\-]+?)(?:\n|$)', line, re.IGNORECASE) on a
   line without newline: digits, a dot, optional whitespace, a letter, and at
   least one more letter, whitespace or hyphen up to the end of the line *)
MatchNumberedHeading(line) ==
    LET d == RunLen(line, 1, Digits)
        w == RunLen(line, d + 2, WhiteSpace)
        start == d + 2 + w
    IN  IF /\ d >= 1
           /\ Len(line) >= d + 1
           /\ line[d + 1] = "."
           /\ start < Len(line)
           /\ line[start] \in Letters
           /\ \A i \in (start + 1)..Len(line) : line[i] \in Letters \cup WhiteSpace \cup {"-"}
        THEN [matched |-> TRUE, group1 |-> SubSeq(line, 1, d),
              group2 |-> SubSeq(line, start, Len(line))]
        ELSE NoMatch

(* re.match(r'(KEYWORD\s+\d+)[.\s]+(.+?)(?:\n|$)', line, re.IGNORECASE): the
   keyword, whitespace, digits, a run of dots and whitespace, and a non-empty
   rest; when the run reaches the end of the line its last character is the
   rest *)
MatchKeywordHeading(line, keyword) ==
    LET n == Len(keyword)
        w == RunLen(line, n + 1, WhiteSpace)
        d == RunLen(line, n + 1 + w, Digits)
        e1 == n + w + d
        r == RunLen(line, e1 + 1, WhiteSpace \cup {"."})
    IN  IF /\ Len(line) >= n
           /\ str_lower(SubSeq(line, 1, n)) = str_lower(keyword)
           /\ w >= 1 /\ d >= 1 /\ r >= 1
           /\ (e1 + r < Len(line) \/ r >= 2)
        THEN [matched |-> TRUE, group1 |-> SubSeq(line, 1, e1),
              group2 |-> IF e1 + r < Len(line)
                         THEN SubSeq(line, e1 + r + 1, Len(line))
                         ELSE SubSeq(line, Len(line), Len(line))]
        ELSE NoMatch

RAZDEL == <<"R~","A~","Z~","D~","E~","L~">>
STATYA == <<"S~","t~","a~","t~","soft~","ya~">>
PREAMBULA == <<"P~","R~","E~","A~","M~","B~","U~","L~","A~">>

(* the first of the three patterns that matches the stripped line *)
MatchHeading(line) ==
    LET s == str_strip(line)
        m1 == MatchNumberedHeading(s)
        m2 == MatchKeywordHeading(s, RAZDEL)
        m3 == MatchKeywordHeading(s, STATYA)
    IN  IF m1.matched THEN m1 ELSE IF m2.matched THEN m2 ELSE m3

(* f"{match.group(1)}. {match.group(2)}".strip().upper() *)
HeadingLabel(m) == str_upper(str_strip(m.group1 \o <<".", " ">> \o m.group2))

(* StoreSection with one fault: a section is kept only when its body is not
   empty *)
StoreNonEmptySection(sections, current_section, current_content) ==
    IF str_strip(str_join(current_content, <<NL>>)) # << >>
    THEN DictSet(sections, current_section, str_strip(str_join(current_content, <<NL>>)))
    ELSE sections

(* StoreSection with one fault: a label that has a body keeps it *)
StoreSectionKeepFirst(sections, current_section, current_content) ==
    IF current_content # << >> /\ ~DictHas(sections, current_section)
    THEN DictSet(sections, current_section, str_strip(str_join(current_content, <<NL>>)))
    ELSE sections

(* StoreSection with one fault: the body is stored as it was read *)
StoreSectionUnstripped(sections, current_section, current_content) ==
    IF current_content # << >>
    THEN DictSet(sections, current_section, str_join(current_content, <<NL>>))
    ELSE sections

(* if current_content: sections[current_section] = '\n'.join(current_content).strip() *)
StoreSection(sections, current_section, current_content) ==
    IF current_content # << >>
    THEN DictSet(sections, current_section, str_strip(str_join(current_content, <<NL>>)))
    ELSE sections

RECURSIVE ExtractLoop(_, _, _, _)
ExtractLoop(text_lines, sections, current_section, current_content) ==
    IF text_lines = << >>
    THEN StoreSection(sections, current_section, current_content)
    ELSE LET line == Head(text_lines)
             m == MatchHeading(line)
         IN  IF m.matched
             THEN ExtractLoop(Tail(text_lines),
                              StoreSection(sections, current_section, current_content),
                              HeadingLabel(m), <<line>>)
             ELSE ExtractLoop(Tail(text_lines), sections, current_section,
                              Append(current_content, line))

extract_sections(text) ==
    ExtractLoop(str_split(text, NL), << >>, PREAMBULA, << >>)

----------------------------------------------------------------------------
(* AdvancedComparator.compare_section, find_best_matching_section,
   check_risk_patterns *)

EmptyDict == [k \in {} |-> 0]

(* the result dict of compare_section before any metric is computed *)
MissingComparison ==
    [found |-> FALSE, similarity_scores |-> EmptyDict, combined_score |-> 0,
     matched_keywords |-> << >>, keyword_score |-> 0, deviations |-> << >>,
     status |-> "missing"]

(* StatusOf with one fault: a score at a threshold falls below it *)
StatusOfExclusive(combined) ==
    IF combined > 70 * Scale THEN "match"
    ELSE IF combined > 40 * Scale THEN "partial"
    ELSE "deviation"

(* combined >= 0.7 -> match, >= 0.4 -> partial, else deviation; combined is
   in units of 1/(100 * Scale) *)
StatusOf(combined) ==
    IF combined >= 70 * Scale THEN "match"
    ELSE IF combined >= 40 * Scale THEN "partial"
    ELSE "deviation"

(* the weighted sum of the six metrics, in units of 1/(100 * Scale) *)
CombinedScore(jaccard, jaccard_bigrams, overlap, levenshtein, cosine, keyword_score) ==
    jaccard * 15 + jaccard_bigrams * 20 + overlap * 15
    + levenshtein * 20 + cosine * 15 + keyword_score * 15

ComparisonResult(jaccard, jaccard_bigrams, overlap, levenshtein, cosine, kw, combined) ==
    [found |-> TRUE,
     similarity_scores |->
         [jaccard_words |-> jaccard, jaccard_bigrams |-> jaccard_bigrams,
          overlap |-> overlap, levenshtein |-> levenshtein,
          cosine_tfidf |-> cosine],
     combined_score |-> combined,
     matched_keywords |-> kw[2], keyword_score |-> kw[1],
     deviations |-> << >>,
     status |-> StatusOf(combined)]

CompareMetrics(jaccard, jaccard_bigrams, overlap, levenshtein, cosine, kw) ==
    ComparisonResult(jaccard, jaccard_bigrams, overlap, levenshtein, cosine, kw,
        CombinedScore(jaccard, jaccard_bigrams, overlap, levenshtein, cosine, kw[1]))

(* {k: compute_tf(tokens).get(k, 0) * idf.get(k, 1) for k in set(tokens)} *)
TfIdf(tokens, idf) ==
    [k \in SeqRange(tokens) |->
        (DictGet(compute_tf(tokens), k, 0) * DictGet(idf, k, Scale)) \div Scale]

CosineTfIdf(contract_tokens, template_tokens, idf, hash_seed) ==
    cosine_similarity(TfIdf(contract_tokens, idf), TfIdf(template_tokens, idf),
                      hash_seed)

CompareTokens(contract_section, template_section, keywords, contract_tokens, template_tokens, hash_seed) ==
    CompareMetrics(
        jaccard_similarity(SeqRange(contract_tokens), SeqRange(template_tokens)),
        jaccard_similarity(get_ngrams(contract_tokens, 2), get_ngrams(template_tokens, 2)),
        overlap_coefficient(SeqRange(contract_tokens), SeqRange(template_tokens)),
        levenshtein_ratio(str_prefix(contract_section, 1000),
                          str_prefix(template_section, 1000)),
        CosineTfIdf(contract_tokens, template_tokens,
                    compute_idf(<<contract_tokens, template_tokens>>), hash_seed),
        keyword_match_score(contract_section, keywords))

compare_section(contract_section, template_section, keywords, hash_seed) ==
    IF contract_section = << >> THEN MissingComparison
    ELSE CompareTokens(contract_section, template_section, keywords,
                       tokenize(contract_section), tokenize(template_section),
                       hash_seed)

(* re.sub(r'^\d+\.\s*', '', name) *)
StripNumbering(name) ==
    LET d == RunLen(name, 1, Digits)
        w == RunLen(name, d + 2, WhiteSpace)
    IN  IF d >= 1 /\ Len(name) >= d + 1 /\ name[d + 1] = "."
        THEN SubSeq(name, d + 2 + w, Len(name))
        ELSE name

(* total_score = combined * 0.7 + name_similarity * 0.3, in units of
   1/(1000 * Scale) *)
TotalScore(comparison, name_similarity) ==
    comparison.combined_score * 7 + name_similarity * 300

(* BetterMatch with one fault: a section that ties with the best replaces it *)
BetterMatchLatest(contract_section_name, comparison, name_similarity, total_score, best_match, best_result, best_score) ==
    IF total_score >= best_score
    THEN <<contract_section_name,
           comparison @@ [matched_section_name |-> contract_section_name,
                          name_similarity |-> name_similarity],
           total_score>>
    ELSE <<best_match, best_result, best_score>>

(* the body of the loop over contract_sections.items(): the new
   <<best_match, best_result, best_score>> *)
BetterMatch(contract_section_name, comparison, name_similarity, total_score, best_match, best_result, best_score) ==
    IF total_score > best_score
    THEN <<contract_section_name,
           comparison @@ [matched_section_name |-> contract_section_name,
                          name_similarity |-> name_similarity],
           total_score>>
    ELSE <<best_match, best_result, best_score>>

ScoreCandidate(contract_section_name, comparison, name_similarity, best) ==
    BetterMatch(contract_section_name, comparison, name_similarity,
                TotalScore(comparison, name_similarity),
                best[1], best[2], best[3])

RECURSIVE BestMatchLoop(_, _, _, _, _, _)
BestMatchLoop(section_name_normalized, items, template_text, keywords, best, hash_seed) ==
    IF items = << >> THEN <<best[1], best[2]>>
    ELSE BestMatchLoop(section_name_normalized, Tail(items), template_text, keywords,
             ScoreCandidate(Head(items)[1],
                 compare_section(Head(items)[2], template_text, keywords, hash_seed),
                 levenshtein_ratio(section_name_normalized,
                                   str_lower(StripNumbering(Head(items)[1]))),
                 best),
             hash_seed)

(* <<best_match, best_result>>, both None when no contract section scores
   above 0 *)
find_best_matching_section(section_name, contract_sections, template_text, keywords, hash_seed) ==
    BestMatchLoop(str_lower(StripNumbering(section_name)), contract_sections,
                  template_text, keywords, <<None, None, 0>>, hash_seed)

(* the characters of context kept on each side of a match *)
ContextChars == 100

(* re_search with one fault: the rightmost occurrence *)
re_search_rightmost(pattern, text) ==
    IF Occurrences(pattern, text) = {} THEN None
    ELSE <<SetMax(Occurrences(pattern, text)),
           SetMax(Occurrences(pattern, text)) + Len(pattern)>>

(* re.search(pattern, text) for a literal pattern: the leftmost occurrence,
   as <<start, end>> (0-based, end exclusive), or None *)
re_search(pattern, text) ==
    LET occ == Occurrences(pattern, text)
    IN  IF occ = {} THEN None ELSE <<SetMin(occ), SetMin(occ) + Len(pattern)>>

Ellipsis == <<".", ".", ".">>

RiskFinding(p, text_lower, match) ==
    [issue |-> p.issue,
     risk_level |-> IF "risk" \in DOMAIN p THEN p.risk ELSE "yellow",
     context |-> Ellipsis
                 \o SubSeq(text_lower, MaxOf(0, match[1] - ContextChars) + 1,
                           MinOf(Len(text_lower), match[2] + ContextChars))
                 \o Ellipsis,
     position |-> match[1]]

(* the body of the loop over patterns *)
ScanRule(p, text_lower, match, found_risks) ==
    IF match # None
    THEN Append(found_risks, RiskFinding(p, text_lower, match))
    ELSE found_risks

RECURSIVE RiskLoop(_, _, _)
RiskLoop(text_lower, patterns, found_risks) ==
    IF patterns = << >> THEN found_risks
    ELSE RiskLoop(text_lower, Tail(patterns),
                  ScanRule(Head(patterns), text_lower,
                           re_search(Head(patterns).pattern, text_lower),
                           found_risks))

check_risk_patterns(text, patterns) == RiskLoop(str_lower(text), patterns, << >>)

----------------------------------------------------------------------------
(* AdvancedComparator.full_comparison *)

(* weight = 2.0 if required else 1.0; weights and the contributions
   weight * 1.0, weight * 0.6, weight * 0.3 are kept in tenths *)
SectionWeight(section_data) ==
    IF DictGet(section_data, "required", FALSE) THEN 20 ELSE 10

(* Contribution with one fault: a partial section counts for half its weight *)
ContributionHalved(weight, status) ==
    IF status = "match" THEN weight
    ELSE IF status = "partial" THEN (weight * 5) \div 10
    ELSE (weight * 3) \div 10

Contribution(weight, status) ==
    IF status = "match" THEN weight
    ELSE IF status = "partial" THEN (weight * 6) \div 10
    ELSE (weight * 3) \div 10

(* a float that is a quotient of integers *)
Rational(num, den) == [num |-> num, den |-> den]
RatGeq(r, n) == r.num >= n * r.den

(* the result dict as full_comparison creates it *)
InitialResult(typical_form) ==
    [form_name |-> DictGet(typical_form, "name", ""),
     form_code |-> DictGet(typical_form, "code", ""),
     form_version |-> DictGet(typical_form, "version", ""),
     sections_analysis |-> << >>,
     missing_sections |-> << >>,
     found_sections |-> << >>,
     partial_sections |-> << >>,
     deviation_sections |-> << >>,
     risks |-> << >>,
     global_risks |-> << >>,
     compliance_score |-> Rational(0, 1),
     section_scores |-> << >>,
     recommendations |-> << >>,
     summary |-> ""]

(* comparison if comparison else {"found": False, "combined_score": 0, "status": "missing"} *)
ComparisonOrDefault(comparison) ==
    IF comparison # None THEN comparison
    ELSE [found |-> FALSE, combined_score |-> 0, status |-> "missing"]

(* if matched_name and contract_sections.get(matched_name): scan the matched
   section with the template section's rules *)
SectionRisks(c_sections, matched_name, section_data) ==
    IF /\ matched_name # None
       /\ DictHas(c_sections, matched_name)
       /\ DictAt(c_sections, matched_name) # << >>
    THEN check_risk_patterns(DictAt(c_sections, matched_name),
                             DictGet(section_data, "risk_patterns", << >>))
    ELSE << >>

(* "missing" unless comparison and comparison.get("found") *)
SectionStatus(comparison) ==
    IF comparison # None /\ comparison.found THEN comparison.status ELSE "missing"

(* the branch of the status: the section list it appends to and the
   recommendation it adds *)
RecordStatus(res, status, section_name, section_data) ==
    CASE status = "match" ->
             [res EXCEPT !.found_sections = Append(@, section_name)]
      [] status = "partial" ->
             [res EXCEPT !.partial_sections = Append(@, section_name)]
      [] status = "missing" ->
             [res EXCEPT !.missing_sections = Append(@, section_name),
                         !.recommendations =
                             IF DictGet(section_data, "required", FALSE)
                             THEN Append(@, <<"critical_missing", section_name>>)
                             ELSE @]
      [] OTHER ->
             [res EXCEPT !.deviation_sections = Append(@, section_name),
                         !.recommendations = Append(@, <<"deviates", section_name>>)]

RecordSection(res, section_name, section_data, matched_name, comparison, section_risks) ==
    [res EXCEPT
        !.risks = @ \o section_risks,
        !.sections_analysis =
            Append(@, [section_name |-> section_name,
                       required |-> DictGet(section_data, "required", FALSE),
                       matched_in_contract |-> matched_name,
                       comparison |-> ComparisonOrDefault(comparison),
                       risks |-> section_risks]),
        !.section_scores =
            IF comparison # None
            THEN DictSet(@, section_name, comparison.combined_score)
            ELSE @]

StepWith(res, t_score, t_weight, section_name, section_data, weight, status, matched_name, comparison, section_risks) ==
    [result |-> RecordStatus(RecordSection(res, section_name, section_data,
                                           matched_name, comparison, section_risks),
                             status, section_name, section_data),
     total_score |-> t_score + (IF status = "missing" THEN 0
                                ELSE Contribution(weight, status)),
     total_weight |-> t_weight + weight]

StepMatched(res, t_score, t_weight, c_sections, section_name, section_data, best) ==
    StepWith(res, t_score, t_weight, section_name, section_data,
             SectionWeight(section_data), SectionStatus(best[2]),
             best[1], best[2], SectionRisks(c_sections, best[1], section_data))

(* one pass of the loop over typical_form["sections"].items(): the state of
   the call is <<result, total_score, total_weight>> *)
SectionStep(res, t_score, t_weight, c_sections, section_name, section_data, hash_seed) ==
    StepMatched(res, t_score, t_weight, c_sections, section_name, section_data,
        find_best_matching_section(section_name, c_sections,
            DictGet(section_data, "template", << >>),
            DictGet(section_data, "keywords", << >>), hash_seed))

CountLevel(risks, level) ==
    Cardinality({i \in 1..Len(risks) : risks[i].risk_level = level})

(* risk_penalty * 100 = red_risks * 15 + yellow_risks * 5 *)
RiskPenalty(risks) == CountLevel(risks, "red") * 15 + CountLevel(risks, "yellow") * 5

(* ComplianceScore with one fault: the difference is not clamped at 0 *)
UnclampedScore(res, t_score, t_weight) ==
    IF t_weight > 0
    THEN Rational(100 * t_score - RiskPenalty(res.risks) * t_weight, t_weight)
    ELSE res.compliance_score

(* max(0, (total_score / total_weight) * 100 - risk_penalty * 100) when
   total_weight > 0; the initial 0 otherwise *)
ComplianceScore(res, t_score, t_weight) ==
    IF t_weight > 0
    THEN Rational(MaxOf(0, 100 * t_score - RiskPenalty(res.risks) * t_weight), t_weight)
    ELSE res.compliance_score

SummaryOf(score) ==
    IF RatGeq(score, 80) THEN "high"
    ELSE IF RatGeq(score, 50) THEN "partial"
    ELSE "low"

WithScore(res, score) ==
    [res EXCEPT !.compliance_score = score, !.summary = SummaryOf(score)]

WithGlobalRisks(res, global_risks) ==
    [res EXCEPT !.global_risks = global_risks, !.risks = @ \o global_risks]

Scored(res, t_score, t_weight) ==
    WithScore(res, ComplianceScore(res, t_score, t_weight))

(* the code after the loop: the global scan, the score and the summary *)
FinishComparison(res, t_score, t_weight, text, typical_form) ==
    Scored(WithGlobalRisks(res,
               check_risk_patterns(text,
                   DictGet(typical_form, "global_risk_patterns", << >>))),
           t_score, t_weight)

RECURSIVE SectionsLoop(_, _, _, _)
SectionsLoop(st, c_sections, items, hash_seed) ==
    IF items = << >> THEN st
    ELSE SectionsLoop(SectionStep(st.result, st.total_score, st.total_weight,
                                  c_sections, Head(items)[1], Head(items)[2],
                                  hash_seed),
                      c_sections, Tail(items), hash_seed)

FinishLoop(st, text, form) ==
    FinishComparison(st.result, st.total_score, st.total_weight, text, form)

(* the whole call, as a function of its two arguments and of the hash seed of
   the process that runs it *)
full_comparison(text, form, hash_seed) ==
    FinishLoop(SectionsLoop([result |-> InitialResult(form),
                             total_score |-> 0, total_weight |-> 0],
                            extract_sections(text),
                            DictGet(form, "sections", << >>), hash_seed),
               text, form)

----------------------------------------------------------------------------
(* The risk-zone classifier: determine_risk_zone and its tables.  The names
   of deal types and documents and the texts of the result are given in
   English; a str built by an f-string is the sequence of its parts *)

RiskZone == [GREEN |-> "green", YELLOW |-> "yellow", RED |-> "red"]

DocumentForm ==
    [TYPICAL |-> "typical", COUNTERPARTY |-> "counterparty", FREE |-> "free",
     MODIFIED_TF |-> "modified_tf", SELF_DEVELOPED |-> "self"]

LegalStatus ==
    [NOT_SUBMITTED |-> "not_submitted", NO_INFO |-> "no_info",
     SUBMITTED |-> "submitted", APPROVED |-> "approved",
     REJECTED |-> "rejected", IN_PROGRESS |-> "in_progress"]

Thresholds ==
    [GREEN_TF_MAX |-> 100000,
     GREEN_NON_TF_MAX |-> 50000,
     YELLOW_MAX |-> 5000000,
     RED_MIN |-> 5000001,
     TENDER_RED |-> 3000000,
     SINGLE_SUPPLIER_YELLOW |-> 100000,
     CONTRACT_CONTROL_YEARS |-> 3]

Deadlines == [STANDARD |-> 5, EXTENDED |-> 10, URGENT |-> 1]

RED_ZONE_ALWAYS ==
    <<"Wagon rental", "Wagon leasing", "Purchase/sale of wagons",
      "Locomotive rental", "Locomotive leasing", "Purchase/sale of locomotives",
      "Container rental", "Container leasing", "Purchase/sale of containers",
      "International carriage (foreign trade)", "Settlements in foreign currency",
      "Software development contract", "Software implementation contract",
      "Software licence agreement", "Smart contract",
      "Real estate rental", "Real estate purchase",
      "Credit agreement", "Loan agreement", "Pledge agreement", "Surety agreement",
      "Contract with RZD", "Service (global) contract",
      "Contract requiring approval of the Board of Directors",
      "Employment contract with top management",
      "Local normative act", "Regulation/Rules/Instruction",
      "Order on trade secrets", "Order on a disciplinary penalty",
      "Order on material liability">>

YELLOW_ZONE_TYPES ==
    <<"Contract for regular (framework) carriage",
      "Contract for annual carriage",
      "Freight forwarding contract",
      "Carriage of dangerous cargo", "Carriage of oversized cargo",
      "Carriage of heavy cargo", "Carriage of valuable cargo",
      "Purchase from a single supplier">>

RED_DOCUMENTS_ALWAYS ==
    <<"Claim (incoming)", "Claim (outgoing)",
      "Statement of claim", "Court order",
      "Request of the tax service", "Request of the antimonopoly service",
      "Request of the prosecutor", "Request of the transport supervisor",
      "Request of the labour inspectorate",
      "Request of another state body", "Prescription of a state body",
      "Demand of a state body",
      "Road accident with a company vehicle", "Loss of cargo", "Damage to cargo",
      "Downtime requiring legal record">>

(* x in xs, xs a list *)
InList(x, xs) == \E i \in 1..Len(xs) : xs[i] = x

(* the dataclass AnalysisInput with its defaults *)
AnalysisInput ==
    [amount |-> 0, document_form |-> DocumentForm.TYPICAL, document_type |-> "",
     deal_type |-> "", legal_status |-> LegalStatus.NOT_SUBMITTED,
     is_single_supplier |-> FALSE, is_tender |-> FALSE, tender_amount |-> 0,
     contract_years |-> 0, changes_essential |-> FALSE, is_urgent |-> FALSE,
     counterparty |-> "", contract_number |-> "", contract_date |-> ""]

(* the dataclass ZoneResult with its defaults *)
ZoneResult ==
    [zone |-> RiskZone.GREEN, zone_reason |-> << >>, deadline_days |-> 0,
     requires_legal |-> FALSE, responsible |-> "Initiator",
     recommendations |-> << >>, warnings |-> << >>, red_flags |-> << >>,
     yellow_flags |-> << >>, green_flags |-> << >>,
     required_documents |-> << >>, approval_route |-> << >>]

(* f"{x:,.0f}" for a whole amount: its digits in groups of three *)
GroupOfThree(n) ==
    IF n < 10 THEN "00" \o ToString(n)
    ELSE IF n < 100 THEN "0" \o ToString(n)
    ELSE ToString(n)
RECURSIVE FormatAmount(_)
FormatAmount(n) ==
    IF n < 1000 THEN ToString(n)
    ELSE FormatAmount(n \div 1000) \o "," \o GroupOfThree(n % 1000)

(* the conditions of the four red rules, in the order of the code *)
RedByDealType(inp) ==
    inp.deal_type # "" /\ InList(inp.deal_type, RED_ZONE_ALWAYS)
RedByDocumentType(inp) ==
    inp.document_type # "" /\ InList(inp.document_type, RED_DOCUMENTS_ALWAYS)
(* RedByTender with one fault: the threshold itself counts *)
RedByTenderInclusive(inp) ==
    inp.is_tender /\ inp.tender_amount >= Thresholds.TENDER_RED
RedByTender(inp) ==
    inp.is_tender /\ inp.tender_amount > Thresholds.TENDER_RED
(* RedByAmount with one fault: the threshold itself counts *)
RedByAmountInclusive(inp) ==
    inp.amount >= Thresholds.YELLOW_MAX
RedByAmount(inp) ==
    inp.amount > Thresholds.YELLOW_MAX

(* the result of each red rule *)
RedDealResult(res, inp) ==
    [res EXCEPT
        !.zone = RiskZone.RED,
        !.zone_reason = <<"'", inp.deal_type, "' - always red zone (4.3)">>,
        !.red_flags = Append(@, <<"Strategic deal: ", inp.deal_type>>),
        !.requires_legal = TRUE,
        !.responsible = "Legal department",
        !.deadline_days = Deadlines.EXTENDED,
        !.approval_route = <<"Legal department (planning stage)", "Joint work">>,
        !.required_documents = <<"Task description", "Draft contract",
                                 "Terms of reference", "Commercial offer",
                                 "Counterparty card">>]

(* RedDocumentResult with one fault: the deadline of the other red rules and
   no warning *)
RedDocumentExtended(res, inp) ==
    [res EXCEPT
        !.zone = RiskZone.RED,
        !.zone_reason = <<"'", inp.document_type, "' - always red zone">>,
        !.red_flags = Append(@, <<"Critical document: ", inp.document_type>>),
        !.requires_legal = TRUE,
        !.responsible = "Legal department",
        !.deadline_days = Deadlines.EXTENDED,
        !.approval_route = <<"Legal department IMMEDIATELY">>]

RedDocumentResult(res, inp) ==
    [res EXCEPT
        !.zone = RiskZone.RED,
        !.zone_reason = <<"'", inp.document_type, "' - always red zone">>,
        !.red_flags = Append(@, <<"Critical document: ", inp.document_type>>),
        !.requires_legal = TRUE,
        !.responsible = "Legal department",
        !.deadline_days = Deadlines.URGENT,
        !.approval_route = <<"Legal department IMMEDIATELY">>,
        !.warnings = Append(@, "IMMEDIATE involvement of the legal department!")]

RedTenderResult(res, inp) ==
    [res EXCEPT
        !.zone = RiskZone.RED,
        !.zone_reason = <<"Tender > 3 000 000 rub.">>,
        !.red_flags = Append(@, <<"Tender ", FormatAmount(inp.tender_amount), " rub.">>),
        !.requires_legal = TRUE,
        !.responsible = "Legal department",
        !.deadline_days = Deadlines.EXTENDED]

(* RedAmountResult with one fault: the flag of the rule is not recorded *)
RedAmountResultNoFlag(res, inp) ==
    [res EXCEPT
        !.zone = RiskZone.RED,
        !.zone_reason = <<"Amount ", FormatAmount(inp.amount), " rub. > 5 000 000">>,
        !.requires_legal = TRUE,
        !.responsible = "Legal department",
        !.deadline_days = Deadlines.EXTENDED,
        !.approval_route = <<"Legal department (planning)", "Joint work">>]

RedAmountResult(res, inp) ==
    [res EXCEPT
        !.zone = RiskZone.RED,
        !.zone_reason = <<"Amount ", FormatAmount(inp.amount), " rub. > 5 000 000">>,
        !.red_flags = Append(@, <<"Amount > 5 mln rub.">>),
        !.requires_legal = TRUE,
        !.responsible = "Legal department",
        !.deadline_days = Deadlines.EXTENDED,
        !.approval_route = <<"Legal department (planning)", "Joint work">>]

(* the yellow triggers: each that fires gives <<reason, flag>>, the entry it
   appends to yellow_reasons and the one it appends to result.yellow_flags *)
DealTrigger(inp) ==
    IF inp.deal_type # "" /\ InList(inp.deal_type, YELLOW_ZONE_TYPES)
    THEN << <<<<inp.deal_type>>, <<inp.deal_type>>>> >>
    ELSE << >>

SupplierTrigger(inp) ==
    IF inp.is_single_supplier /\ inp.amount > Thresholds.SINGLE_SUPPLIER_YELLOW
    THEN << <<<<"Single supplier > 100K">>, <<"Single supplier">>>> >>
    ELSE << >>

YearsTrigger(inp) ==
    IF inp.contract_years > Thresholds.CONTRACT_CONTROL_YEARS
    THEN << <<<<"Control term > ", ToString(Thresholds.CONTRACT_CONTROL_YEARS), " years">>,
              <<"Contract > ", ToString(inp.contract_years), " years">>>> >>
    ELSE << >>

(* NonTypicalForms with one fault: the self-developed form is left out *)
NonTypicalWithoutSelf ==
    <<DocumentForm.COUNTERPARTY, DocumentForm.FREE>>

NonTypicalForms ==
    <<DocumentForm.COUNTERPARTY, DocumentForm.FREE, DocumentForm.SELF_DEVELOPED>>

(* FormTrigger with one fault: for a typical form the threshold itself fires *)
FormTriggerInclusive(inp) ==
    IF inp.document_form = DocumentForm.TYPICAL
    THEN IF inp.amount >= Thresholds.GREEN_TF_MAX
         THEN << <<<<"TF > 100K">>, <<"TF: ", FormatAmount(inp.amount), " rub.">>>> >>
         ELSE << >>
    ELSE IF InList(inp.document_form, NonTypicalForms)
    THEN IF inp.amount > Thresholds.GREEN_NON_TF_MAX
         THEN << <<<<"Non-typical form > 50K">>, <<"Non-typical > 50K">>>> >>
         ELSE << >>
    ELSE IF inp.document_form = DocumentForm.MODIFIED_TF
    THEN IF inp.changes_essential
         THEN << <<<<"Change of essential terms">>, <<"Essential changes of the TF">>>> >>
         ELSE IF inp.amount > Thresholds.GREEN_NON_TF_MAX
         THEN << <<<<"Changes of the TF > 50K">>, <<"Changes of the TF > 50K">>>> >>
         ELSE << >>
    ELSE << >>

FormTrigger(inp) ==
    IF inp.document_form = DocumentForm.TYPICAL
    THEN IF inp.amount > Thresholds.GREEN_TF_MAX
         THEN << <<<<"TF > 100K">>, <<"TF: ", FormatAmount(inp.amount), " rub.">>>> >>
         ELSE << >>
    ELSE IF InList(inp.document_form, NonTypicalForms)
    THEN IF inp.amount > Thresholds.GREEN_NON_TF_MAX
         THEN << <<<<"Non-typical form > 50K">>, <<"Non-typical > 50K">>>> >>
         ELSE << >>
    ELSE IF inp.document_form = DocumentForm.MODIFIED_TF
    THEN IF inp.changes_essential
         THEN << <<<<"Change of essential terms">>, <<"Essential changes of the TF">>>> >>
         ELSE IF inp.amount > Thresholds.GREEN_NON_TF_MAX
         THEN << <<<<"Changes of the TF > 50K">>, <<"Changes of the TF > 50K">>>> >>
         ELSE << >>
    ELSE << >>

(* what the form branch appends to result.green_flags when it does not fire *)
FormGreenFlags(inp) ==
    IF inp.document_form = DocumentForm.TYPICAL
    THEN IF inp.amount > Thresholds.GREEN_TF_MAX THEN << >> ELSE << <<"TF <= 100K">> >>
    ELSE IF InList(inp.document_form, NonTypicalForms)
    THEN IF inp.amount > Thresholds.GREEN_NON_TF_MAX THEN << >>
         ELSE << <<"Non-typical <= 50K">> >>
    ELSE IF inp.document_form = DocumentForm.MODIFIED_TF
    THEN IF inp.changes_essential \/ inp.amount > Thresholds.GREEN_NON_TF_MAX THEN << >>
         ELSE << <<"Changes of the TF <= 50K">> >>
    ELSE << >>

YellowTriggers(inp) ==
    DealTrigger(inp) \o SupplierTrigger(inp) \o YearsTrigger(inp) \o FormTrigger(inp)

(* yellow_reasons and the flags appended with them *)
YellowReasons(triggers) == [i \in 1..Len(triggers) |-> triggers[i][1]]
YellowFlags(triggers) == [i \in 1..Len(triggers) |-> triggers[i][2]]

(* YellowResult with one fault: the deadline of the red rules *)
YellowResultExtended(res, inp, triggers) ==
    [res EXCEPT
        !.yellow_flags = @ \o YellowFlags(triggers),
        !.green_flags = @ \o FormGreenFlags(inp),
        !.zone = RiskZone.YELLOW,
        !.zone_reason = str_join(YellowReasons(triggers), <<"; ">>),
        !.requires_legal = TRUE,
        !.responsible = "Legal department (expertise)",
        !.deadline_days = Deadlines.EXTENDED,
        !.approval_route =
            <<"Initiator -> document system -> Legal department (5 days) -> Signing">>,
        !.required_documents = <<"Draft contract", "Terms of reference",
                                 "Commercial offer", "Counterparty card">>,
        !.warnings = Append(@, "Signing is FORBIDDEN before the visa of the legal department!")]

YellowResult(res, inp, triggers) ==
    [res EXCEPT
        !.yellow_flags = @ \o YellowFlags(triggers),
        !.green_flags = @ \o FormGreenFlags(inp),
        !.zone = RiskZone.YELLOW,
        !.zone_reason = str_join(YellowReasons(triggers), <<"; ">>),
        !.requires_legal = TRUE,
        !.responsible = "Legal department (expertise)",
        !.deadline_days = Deadlines.STANDARD,
        !.approval_route =
            <<"Initiator -> document system -> Legal department (5 days) -> Signing">>,
        !.required_documents = <<"Draft contract", "Terms of reference",
                                 "Commercial offer", "Counterparty card">>,
        !.warnings = Append(@, "Signing is FORBIDDEN before the visa of the legal department!")]

(* GreenResult with one fault: the approval route is not set *)
GreenResultNoRoute(res, inp) ==
    [res EXCEPT
        !.green_flags = @ \o FormGreenFlags(inp),
        !.zone = RiskZone.GREEN,
        !.zone_reason = <<"Green corridor (4.1)">>,
        !.requires_legal = FALSE,
        !.responsible = "Initiator",
        !.recommendations = Append(@, "Use the current TF without changes")]

GreenResult(res, inp) ==
    [res EXCEPT
        !.green_flags = @ \o FormGreenFlags(inp),
        !.zone = RiskZone.GREEN,
        !.zone_reason = <<"Green corridor (4.1)">>,
        !.requires_legal = FALSE,
        !.responsible = "Initiator",
        !.approval_route = <<"Initiator -> Manager -> Signing">>,
        !.recommendations = Append(@, "Use the current TF without changes")]

(* YellowOrGreen with one fault: an urgent contract is never green *)
YellowOrGreenByUrgency(res, inp, triggers) ==
    IF triggers # << >> \/ inp.is_urgent
    THEN YellowResult(res, inp, triggers) ELSE GreenResult(res, inp)

(* if yellow_reasons: the yellow result; the green one otherwise *)
YellowOrGreen(res, inp, triggers) ==
    IF triggers # << >> THEN YellowResult(res, inp, triggers) ELSE GreenResult(res, inp)

(* determine_risk_zone with one fault: the document rule is tried before the
   deal rule *)
DocumentRuleFirst(inp) ==
    IF RedByDocumentType(inp) THEN RedDocumentResult(ZoneResult, inp)
    ELSE IF RedByDealType(inp) THEN RedDealResult(ZoneResult, inp)
    ELSE IF RedByTender(inp) THEN RedTenderResult(ZoneResult, inp)
    ELSE IF RedByAmount(inp) THEN RedAmountResult(ZoneResult, inp)
    ELSE YellowOrGreen(ZoneResult, inp, YellowTriggers(inp))

determine_risk_zone(inp) ==
    IF RedByDealType(inp) THEN RedDealResult(ZoneResult, inp)
    ELSE IF RedByDocumentType(inp) THEN RedDocumentResult(ZoneResult, inp)
    ELSE IF RedByTender(inp) THEN RedTenderResult(ZoneResult, inp)
    ELSE IF RedByAmount(inp) THEN RedAmountResult(ZoneResult, inp)
    ELSE YellowOrGreen(ZoneResult, inp, YellowTriggers(inp))

----------------------------------------------------------------------------
(* The list objects of a ZoneResult.  A heap is the sequence of the list
   objects created so far, the address of an object its index; the operators
   above give the value of a result, these its objects *)

(* the list fields of the dataclass, in its order *)
ListFields ==
    <<"recommendations", "warnings", "red_flags", "yellow_flags", "green_flags",
      "required_documents", "approval_route">>

(* the fields determine_risk_zone binds to a new list (result.f = [...]); it
   appends to the others (result.f.append(...)) *)
AssignedFields == {"required_documents", "approval_route"}

(* default_factory with one fault: one list, made once, is every default *)
shared_default(h) == 1

(* field(default_factory=list): the default of a field is list(), a new
   object; its address *)
default_factory(h) == Len(h) + 1

(* the heap with the object at address a, which is empty when it is new *)
WithObject(h, a) == IF a > Len(h) THEN Append(h, << >>) ELSE h

(* ZoneResult(): a default for each list field from field k on; the heap and
   the addresses of the fields *)
RECURSIVE NewZoneResult(_, _, _)
NewZoneResult(h, refs, k) ==
    IF k > Len(ListFields) THEN <<h, refs>>
    ELSE NewZoneResult(WithObject(h, default_factory(h)),
                       Append(refs, default_factory(h)), k + 1)

(* the statements of determine_risk_zone on the lists of result, v being the
   value they build from empty lists: an append extends the object a field
   refers to, an assignment binds the field to a new object *)
RECURSIVE FillLists(_, _, _, _)
FillLists(h, refs, v, k) ==
    IF k > Len(ListFields) THEN <<h, refs>>
    ELSE IF ListFields[k] \in AssignedFields
    THEN IF v[ListFields[k]] # << >>
         THEN FillLists(Append(h, v[ListFields[k]]), [refs EXCEPT ![k] = Len(h) + 1],
                        v, k + 1)
         ELSE FillLists(h, refs, v, k + 1)
    ELSE FillLists([h EXCEPT ![refs[k]] = @ \o v[ListFields[k]]], refs, v, k + 1)

FillNew(alloc, v) == FillLists(alloc[1], alloc[2], v, 1)

(* a call of determine_risk_zone(inp) with the heap h: the heap and the
   addresses of the lists of the result it returns *)
ZoneCall(h, inp) == FillNew(NewZoneResult(h, << >>, 1), determine_risk_zone(inp))

(* the result as its reader sees it: the scalar fields of v and the lists
   the fields refer to *)
ResultValue(h, refs, v) ==
    [v EXCEPT
        !.recommendations = h[refs[1]],
        !.warnings = h[refs[2]],
        !.red_flags = h[refs[3]],
        !.yellow_flags = h[refs[4]],
        !.green_flags = h[refs[5]],
        !.required_documents = h[refs[6]],
        !.approval_route = h[refs[7]]]

----------------------------------------------------------------------------
(* The inputs of the model: contract texts of at most MaxLines lines drawn
   from Lines, and the typical forms of TypicalForms *)

MaxLines == 3

T_pay_fee == <<"p","a","y"," ","f","e","e">>
T_due == <<"d","u","e">>
T_pay_usd == <<"p","a","y"," ","u","s","d">>
T_pay == <<"p","a","y">>
T_fee == <<"f","e","e">>
T_usd == <<"u","s","d">>
T_USD == <<"U","S","D">>
H_fee == <<"1","."," ","F","e","e">>
H_tin == <<"2","."," ","T","I","N">>
N_fee == <<"1","."," ","F","E","E">>
N_tin == <<"2","."," ","T","I","N">>

(* a contract whose only section has the tokens of its template in another
   order, and the form with that template *)
T_terms == <<"p","a","y"," ","d","u","e"," ","d","u","e"," ",
             "a","b","c"," ","t","e","r","m"," ","d","u","e">>
T_terms_template == <<"d","u","e"," ","t","e","r","m"," ","p","a","y"," ",
                      "d","u","e"," ","a","b","c"," ","d","u","e">>
Lines == {<< >>, T_pay_fee, T_due, T_pay_usd, H_fee, H_tin}

ContractTexts ==
    {str_join(ls, <<NL>>) : ls \in UNION {[1..n -> Lines] : n \in 1..MaxLines}}

RuleUsdRed == [pattern |-> T_usd, risk |-> "red", issue |-> "currency clause"]
RuleUsdUpper == [pattern |-> T_USD, risk |-> "red", issue |-> "currency clause (upper case)"]
RuleDueYellow == [pattern |-> T_due, risk |-> "yellow", issue |-> "short payment term"]
RuleDueRed == [pattern |-> T_due, risk |-> "red", issue |-> "payment on demand"]
RulePayRed == [pattern |-> T_pay, risk |-> "red", issue |-> "prepayment"]
RuleFeeRed == [pattern |-> T_fee, risk |-> "red", issue |-> "excessive fee"]
(* a rule without the "risk" key *)
RulePayNoLevel == [pattern |-> T_pay, issue |-> "payment clause"]

SectionFee ==
    [required |-> TRUE, template |-> T_pay_fee, keywords |-> <<T_pay, T_fee>>,
     risk_patterns |-> <<RuleUsdRed, RulePayNoLevel>>]
SectionTinOptional ==
    [required |-> FALSE, template |-> T_due, keywords |-> << >>,
     risk_patterns |-> <<RuleDueYellow>>]
SectionTinRequired ==
    [required |-> TRUE, template |-> T_due, keywords |-> << >>,
     risk_patterns |-> << >>]
SectionFeeRisky ==
    [required |-> FALSE, template |-> T_pay_fee, keywords |-> <<T_fee>>,
     risk_patterns |-> <<RuleUsdRed, RulePayRed, RuleFeeRed>>]

FormNone ==
    [name |-> "no sections", code |-> "TF-0", version |-> "1.0",
     sections |-> << >>,
     global_risk_patterns |-> <<RuleUsdRed>>]
FormFee ==
    [name |-> "fee", code |-> "TF-1", version |-> "1.0",
     sections |-> << <<N_fee, SectionFee>> >>,
     global_risk_patterns |-> <<RuleDueYellow>>]
FormTwo ==
    [name |-> "fee and tin", code |-> "TF-2", version |-> "1.0",
     sections |-> << <<N_fee, SectionFee>>, <<N_tin, SectionTinOptional>> >>,
     global_risk_patterns |-> <<RuleUsdRed, RuleUsdUpper>>]
FormDue ==
    [name |-> "tin", code |-> "TF-3", version |-> "1.0",
     sections |-> << <<N_tin, SectionTinRequired>> >>,
     global_risk_patterns |-> << >>]
FormRisky ==
    [name |-> "risky", code |-> "TF-4", version |-> "1.0",
     sections |-> << <<N_fee, SectionFeeRisky>> >>,
     global_risk_patterns |-> <<RuleUsdRed, RulePayRed, RuleFeeRed, RuleDueRed>>]

N_terms == <<"1","."," ","T","E","R","M","S">>
SectionTerms ==
    [required |-> TRUE, template |-> T_terms_template, keywords |-> <<T_pay, T_fee>>,
     risk_patterns |-> << >>]
FormTerms ==
    [name |-> "terms", code |-> "TF-5", version |-> "1.0",
     sections |-> << <<N_terms, SectionTerms>> >>,
     global_risk_patterns |-> << >>]

(* a contract whose only section scores 0.70 against its template: the same
   token, half the characters, the keyword found *)
T_due_dots == T_due \o <<".", ".", ".", ".", ".", ".">>
SectionDots ==
    [required |-> TRUE, template |-> T_due_dots, keywords |-> <<T_due>>,
     risk_patterns |-> << >>]
FormDots ==
    [name |-> "dots", code |-> "TF-8", version |-> "1.0",
     sections |-> << <<N_tin, SectionDots>> >>,
     global_risk_patterns |-> << >>]

TypicalForms == {FormNone, FormFee, FormTwo, FormDue, FormRisky}

(* the calls of full_comparison in the model: <<contract_text, typical_form>> *)
Analyses ==
    (ContractTexts \X TypicalForms)
    \cup {<<T_terms, FormTerms>>, <<T_due, FormDots>>, <<T_pay, FormDue>>}

(* the tokens of the texts and templates above, and the hash seeds of the
   model: each the order in which it makes a set of these tokens iterate *)
T_tin == <<"t","i","n">>
T_abc == <<"a","b","c">>
T_term == <<"t","e","r","m">>
HashSeeds ==
    { <<T_abc, T_due, T_pay, T_term, T_fee, T_usd, T_tin>>,
      <<T_usd, T_tin, T_fee, T_abc, T_pay, T_term, T_due>> }

(* the inputs of determine_risk_zone in the model: every amount at and just
   above a threshold, every form, and a deal type and a document type of each
   kind; the fields the function does not read keep their defaults *)
Amounts ==
    {0} \cup {t + d : t \in {Thresholds.GREEN_NON_TF_MAX, Thresholds.GREEN_TF_MAX,
                             Thresholds.YELLOW_MAX}, d \in {0, 1}}
TenderAmounts == {0, Thresholds.TENDER_RED, Thresholds.TENDER_RED + 1}
ContractYears == {Thresholds.CONTRACT_CONTROL_YEARS, Thresholds.CONTRACT_CONTROL_YEARS + 1}
DocumentForms == {DocumentForm[k] : k \in DOMAIN DocumentForm}
DealTypes ==
    {"", RED_ZONE_ALWAYS[1], YELLOW_ZONE_TYPES[Len(YELLOW_ZONE_TYPES)],
     "Supply contract"}
DocumentTypes == {"", RED_DOCUMENTS_ALWAYS[Len(RED_DOCUMENTS_ALWAYS)], "Contract"}

AnalysisInputs ==
    {[AnalysisInput EXCEPT
         !.amount = a, !.document_form = f, !.document_type = d, !.deal_type = t,
         !.is_single_supplier = s, !.is_tender = it, !.tender_amount = ta,
         !.contract_years = y, !.changes_essential = e] :
       a \in Amounts, f \in DocumentForms, d \in DocumentTypes, t \in DealTypes,
       s \in BOOLEAN, it \in BOOLEAN, ta \in TenderAmounts, y \in ContractYears,
       e \in BOOLEAN}

(* the inputs of a session of the zone page: the defaults and one input for
   each rule of the classifier *)
SessionInputs ==
    {AnalysisInput,
     [AnalysisInput EXCEPT !.deal_type = RED_ZONE_ALWAYS[1]],
     [AnalysisInput EXCEPT !.document_type = RED_DOCUMENTS_ALWAYS[1]],
     [AnalysisInput EXCEPT !.is_tender = TRUE,
                           !.tender_amount = Thresholds.TENDER_RED + 1],
     [AnalysisInput EXCEPT !.amount = Thresholds.YELLOW_MAX + 1],
     [AnalysisInput EXCEPT !.deal_type = YELLOW_ZONE_TYPES[1],
                           !.contract_years = Thresholds.CONTRACT_CONTROL_YEARS + 1],
     [AnalysisInput EXCEPT !.document_form = DocumentForm.MODIFIED_TF,
                           !.changes_essential = TRUE]}

(* the number of calls of determine_risk_zone in a session *)
MaxCalls == 2

(* the files uploaded on the typical forms page: a form with well-formed
   rules, a form whose rules carry a severity that is neither red nor yellow,
   a file without the "sections" key and a form without the "code" key *)
RulePayOrange == [pattern |-> T_pay, risk |-> "orange", issue |-> "prepayment"]
RuleDueOrange == [pattern |-> T_due, risk |-> "orange", issue |-> "payment on demand"]
SectionFeeOrange ==
    [required |-> TRUE, template |-> T_pay_fee, keywords |-> <<T_pay, T_fee>>,
     risk_patterns |-> <<RulePayOrange>>]
FormOrange ==
    [name |-> "orange", code |-> "TF-6", version |-> "1.0",
     sections |-> << <<N_fee, SectionFeeOrange>> >>,
     global_risk_patterns |-> <<RuleDueOrange>>]
FileNoSections == [name |-> "no sections key", code |-> "TF-7"]
FormNoCode ==
    [name |-> "user form", version |-> "1.0",
     sections |-> << <<N_tin, SectionTinOptional>> >>,
     global_risk_patterns |-> <<RuleDueRed>>]
Uploads == {FormFee, FormOrange, FileNoSections, FormNoCode}

(* the number of uploads of a session that add a form *)
MaxForms == 3

(* the texts of the analysis page: one too short for the comparison button
   and three long enough *)
RECURSIVE Repeated(_, _)
Repeated(s, n) == IF n = 0 THEN << >> ELSE s \o Repeated(s, n - 1)
T_long_plain == Repeated(T_pay_usd \o <<" ">> \o T_due \o <<".", " ">>, 8)
T_long_fee == H_fee \o <<NL>> \o Repeated(T_pay_fee \o <<" ">>, 12)
T_long_due == H_tin \o <<NL>> \o Repeated(T_due \o <<" ">>, 24)
PageTexts == {T_pay_fee, T_long_plain, T_long_fee, T_long_due}


----------------------------------------------------------------------------
(* The state: the call of full_comparison in progress *)

(* app.py: the document analysis application.  Its st.session_state is a
   function from the keys that are set to their values; the file uploader
   keeps its file under the key "uploader" *)

Assign(d, k, v) == (k :> v) @@ d
Delete(d, k) == [x \in DOMAIN d \ {k} |-> d[x]]

(* AI_PROVIDERS, in the order of the dict *)
AI_PROVIDERS ==
    << <<"openai", [name |-> "OpenAI GPT-4"]>>,
       <<"anthropic", [name |-> "Anthropic Claude"]>>,
       <<"yandexgpt", [name |-> "YandexGPT"]>>,
       <<"perplexity", [name |-> "Perplexity AI"]>> >>

ProviderIds == [i \in 1..Len(AI_PROVIDERS) |-> AI_PROVIDERS[i][1]]

(* DOC_TYPES: two of its entries, the second keyword lists in full *)
DOC_TYPES ==
    << <<"Supply contract", <<<<"s","u","p","p","l","y">>, <<"s","u","p","p","l","i","e","r">>, <<"b","u","y","e","r">>, <<"g","o","o","d","s">>>>>>,
       <<"Lease contract", <<<<"l","e","a","s","e">>, <<"l","e","s","s","o","r">>, <<"l","e","s","s","e","e">>>>>> >>

(* init_session with no saved configuration and no saved history *)
init_session ==
    [ai_keys |-> << >>, settings |-> [preferred_ai |-> ""], history |-> << >>,
     current_file_id |-> None, doc_text |-> None, doc_meta |-> None,
     uploader |-> None]

(* bool(ai_keys.get(pid)) *)
HasKey(ai_keys, pid) == DictGet(ai_keys, pid, "") # ""

(* the first of pids with a key: its index, 0 when none has one *)
FirstWithKey(ai_keys, pids) ==
    IF \E i \in 1..Len(pids) : HasKey(ai_keys, pids[i])
    THEN SetMin({i \in 1..Len(pids) : HasKey(ai_keys, pids[i])})
    ELSE 0

PreferredAI(state) == DictGet(DictGet(state, "settings", << >>), "preferred_ai", "")

(* AIModule.is_configured: (configured, name of the provider) *)
is_configured(state) ==
    IF PreferredAI(state) # "" /\ HasKey(state.ai_keys, PreferredAI(state))
    THEN <<TRUE, DictAt(AI_PROVIDERS, PreferredAI(state)).name>>
    ELSE IF FirstWithKey(state.ai_keys, ProviderIds) # 0
    THEN <<TRUE, AI_PROVIDERS[FirstWithKey(state.ai_keys, ProviderIds)][2].name>>
    ELSE <<FALSE, "AI is not configured">>

(* the providers in the order AIModule._get_provider tries them *)
ProviderOrder == <<"openai", "anthropic", "perplexity", "yandexgpt">>

(* AIModule._get_provider: (id, key, folder_id) *)
_get_provider(state) ==
    IF PreferredAI(state) # "" /\ HasKey(state.ai_keys, PreferredAI(state))
    THEN <<PreferredAI(state), state.ai_keys[PreferredAI(state)],
           DictGet(state.ai_keys, "yandex_folder_id", "")>>
    ELSE IF FirstWithKey(state.ai_keys, ProviderOrder) # 0
    THEN <<ProviderOrder[FirstWithKey(state.ai_keys, ProviderOrder)],
           state.ai_keys[ProviderOrder[FirstWithKey(state.ai_keys, ProviderOrder)]],
           DictGet(state.ai_keys, "yandex_folder_id", "")>>
    ELSE <<"", "", "">>

(* the answers of a provider to a request: a JSON object, a text without
   one, a refusal of the key *)
Answers ==
    {[status_code |-> 200, has_json |-> TRUE, type |-> "Contract"],
     [status_code |-> 200, has_json |-> FALSE, type |-> ""],
     [status_code |-> 401, has_json |-> FALSE, type |-> ""]}

(* no run without the identify button reads an answer *)
NoAnswer == [status_code |-> 0, has_json |-> FALSE, type |-> ""]

(* AIModule.call: no request without a provider, nor to YandexGPT without a
   folder id; otherwise the request goes to the provider and the call
   succeeds on status 200.  request is the provider asked *)
AIModule_call(state, answer) ==
    IF _get_provider(state)[1] = ""
    THEN [success |-> FALSE, response |-> NoAnswer, request |-> ""]
    ELSE IF _get_provider(state)[1] = "yandexgpt" /\ _get_provider(state)[3] = ""
    THEN [success |-> FALSE, response |-> NoAnswer, request |-> ""]
    ELSE [success |-> answer.status_code = 200, response |-> answer,
          request |-> _get_provider(state)[1]]

KeywordMatches(keywords, text_lower) ==
    Cardinality({i \in 1..Len(keywords) : str_contains(text_lower, keywords[i])})

(* simple_identify_document: the first type with two keywords in the text *)
simple_identify_document(text) ==
    IF \E i \in 1..Len(DOC_TYPES) : KeywordMatches(DOC_TYPES[i][2], str_lower(text)) >= 2
    THEN [type |-> DOC_TYPES[SetMin({i \in 1..Len(DOC_TYPES) :
                        KeywordMatches(DOC_TYPES[i][2], str_lower(text)) >= 2})][1],
          method |-> "keywords"]
    ELSE [type |-> "Document (type not determined)", method |-> "keywords"]

(* ai_identify_document: the object the provider returned, or the simple
   identification when the call failed or returned no JSON *)
ai_identify_document(text, made) ==
    IF ~made.success
    THEN [simple_identify_document(text) EXCEPT !.method = "keywords (AI unavailable)"]
    ELSE IF made.response.has_json
    THEN [type |-> made.response.type, method |-> "AI"]
    ELSE [simple_identify_document(text) EXCEPT !.method = "keywords (AI returned no JSON)"]

(* clear_analysis: the keys it deletes *)
AnalysisKeys ==
    <<"doc_text", "doc_meta", "analysis", "current_file_id", "identification",
      "full_analysis", "comparison">>

clear_analysis(state) ==
    [k \in DOMAIN state \ SeqRange(AnalysisKeys) |-> state[k]]

(* add_to_history, without the timestamp it stamps on the record *)
add_to_history(state, record) ==
    Assign(state, "history", Append(DictGet(state, "history", << >>), record))

(* file_id = f"{file.name}_{file.size}" *)
FileId(file) == <<file.name, "_", ToString(file.size)>>

(* render_upload: (state, text).  A file other than the current one clears
   the analysis; the text is extracted when there is none; text is None
   without a file or when the file cannot be read *)
TakeFile(state) ==
    IF DictGet(state, "current_file_id", None) # FileId(state.uploader)
    THEN Assign(clear_analysis(state), "current_file_id", FileId(state.uploader))
    ELSE state

ReadFile(state) ==
    IF None # DictGet(state, "doc_text", None)
    THEN <<state, state.doc_text>>
    ELSE IF state.uploader.success
    THEN <<Assign(Assign(state, "doc_text", state.uploader.text),
                  "doc_meta", [filename |-> state.uploader.name]),
           state.uploader.text>>
    ELSE <<state, None>>

render_upload(state) ==
    IF None # state.uploader THEN ReadFile(TakeFile(state)) ELSE <<state, None>>

(* the page of a run: the identification card it showed with the file name
   of the document, and the provider it sent a request to *)
NoPage == [card |-> None, filename |-> "", request |-> ""]

(* render_results: an identification in the state is shown, and recorded in
   the history unless added_to_history is set *)
render_results(state, request) ==
    IF "identification" \in DOMAIN state
    THEN <<IF "added_to_history" \notin DOMAIN state
           THEN Assign(add_to_history(state,
                           [filename |-> DictGet(DictGet(state, "doc_meta", << >>),
                                                 "filename", ""),
                            type |-> state.identification.type]),
                       "added_to_history", TRUE)
           ELSE state,
           [card |-> state.identification,
            filename |-> DictGet(DictGet(state, "doc_meta", << >>), "filename", ""),
            request |-> request]>>
    ELSE <<state, [NoPage EXCEPT !.request = request]>>

(* render_analysis: the identify button stores the identification of the
   text, by the provider when AI is configured; then the results *)
render_analysis(state, text, btn_identify, answer) ==
    IF btn_identify /\ is_configured(state)[1]
    THEN render_results(Assign(state, "identification",
                               ai_identify_document(text, AIModule_call(state, answer))),
                        AIModule_call(state, answer).request)
    ELSE IF btn_identify
    THEN render_results(Assign(state, "identification", simple_identify_document(text)), "")
    ELSE render_results(state, "")

(* main for a signed-in user: (state, page) of one run of the script *)
RunAnalysis(uploaded, btn_identify, answer) ==
    IF None # uploaded[2] /\ uploaded[2] # << >>
    THEN render_analysis(uploaded[1], uploaded[2], btn_identify, answer)
    ELSE <<uploaded[1], NoPage>>

main(state, btn_identify, answer) ==
    RunAnalysis(render_upload(state), btn_identify, answer)

(* the files of the user: two contracts and a scan that cannot be read *)
F_supply ==
    [name |-> "supply.txt", size |-> 14, success |-> TRUE, text |-> <<"S","u","p","p","l","i","e","r"," ","g","o","o","d","s">>]
F_lease ==
    [name |-> "lease.txt", size |-> 13, success |-> TRUE, text |-> <<"L","e","s","s","o","r"," ","l","e","s","s","e","e">>]
F_scan == [name |-> "scan.png", size |-> 5, success |-> FALSE, text |-> << >>]
Files == {F_supply, F_lease, F_scan}

(* the providers the user has a key for, and what the key field may hold *)
KeyHolders == {"anthropic", "yandexgpt", "perplexity"}
KeyTexts == {"", "sk-1"}
FolderIds == {"", "b1g"}

VARIABLES
    hash_secret,        \* the hash seed of the running interpreter
    pc,                 \* where the call of full_comparison stands
    contract_text,      \* its argument contract_text
    typical_form,       \* its argument typical_form
    contract_sections,  \* its local contract_sections
    section_idx,        \* the next item of typical_form["sections"].items()
    total_score,        \* its local total_score, in tenths
    total_weight,       \* its local total_weight, in tenths
    result,             \* its local result, returned at the end
    form_fields,        \* the values of the input widgets of the page
    current_input,      \* st.session_state.current_input
    zone_result,        \* st.session_state.zone_result, as its reader sees it
    heap,               \* the list objects the calls of determine_risk_zone made
    zone_object,        \* the addresses of the lists of zone_result
    earlier_result,     \* the result of the call before, as it was returned
    earlier_object,     \* the addresses of its lists
    zone_calls,         \* the number of calls of determine_risk_zone
    custom_typical_forms, \* st.session_state.custom_typical_forms
    other_analysis,     \* the call of full_comparison another session has made
    app_session,        \* st.session_state of app.py
    app_page            \* what the last run of app.py showed and requested

vars == <<hash_secret, pc, contract_text, typical_form, contract_sections,
          section_idx, total_score, total_weight, result,
          form_fields, current_input, zone_result, heap, zone_object,
          earlier_result, earlier_object, zone_calls, custom_typical_forms, other_analysis,
          app_session, app_page>>

comparison_vars == <<pc, contract_text, typical_form, contract_sections,
                     section_idx, total_score, total_weight, result>>
zone_vars == <<form_fields, current_input, zone_result, heap, zone_object,
               earlier_result, earlier_object, zone_calls>>
app_vars == <<app_session, app_page>>

FormSections == DictGet(typical_form, "sections", << >>)

(* no call of full_comparison is in progress *)
NoCall ==
    /\ pc = "idle"
    /\ contract_text = << >>
    /\ typical_form = None
    /\ contract_sections = << >>
    /\ section_idx = 0
    /\ total_score = 0
    /\ total_weight = 0
    /\ result = None

(* a new session of a new interpreter: init_session gives the defaults *)
NewSession ==
    /\ hash_secret \in HashSeeds
    /\ NoCall
    /\ current_input = None
    /\ zone_result = None
    /\ heap = << >>
    /\ zone_object = << >>
    /\ earlier_result = None
    /\ earlier_object = << >>
    /\ zone_calls = 0
    /\ custom_typical_forms = << >>
    /\ other_analysis = None
    /\ app_session = init_session
    /\ app_page = NoPage

Init ==
    /\ NewSession
    /\ form_fields = AnalysisInput

(* the interpreter is started again and draws a new hash seed *)
RestartInterpreter(seed) ==
    /\ pc = "idle"
    /\ hash_secret # seed
    /\ hash_secret' = seed
    /\ UNCHANGED <<comparison_vars, zone_vars, custom_typical_forms, other_analysis, app_vars>>

(* full_comparison is called: result is created, the text is segmented and
   the accumulators start at 0 *)
BeginComparison(text, form) ==
    /\ pc = "idle"
    /\ pc' = "loop"
    /\ contract_text' = text
    /\ typical_form' = form
    /\ result' = InitialResult(form)
    /\ contract_sections' = extract_sections(text)
    /\ total_score' = 0
    /\ total_weight' = 0
    /\ section_idx' = 1
    /\ UNCHANGED <<hash_secret, zone_vars, custom_typical_forms, other_analysis, app_vars>>

StoreStep(st) ==
    /\ result' = st.result
    /\ total_score' = st.total_score
    /\ total_weight' = st.total_weight

(* one pass of the loop over the template sections *)
CompareNextSection ==
    /\ pc = "loop"
    /\ section_idx <= Len(FormSections)
    /\ StoreStep(SectionStep(result, total_score, total_weight, contract_sections,
                             FormSections[section_idx][1], FormSections[section_idx][2],
                             hash_secret))
    /\ section_idx' = section_idx + 1
    /\ UNCHANGED <<hash_secret, pc, contract_text, typical_form, contract_sections,
                   zone_vars, custom_typical_forms, other_analysis, app_vars>>

(* the loop is over: global risks, score, summary; result is returned *)
EndComparison ==
    /\ pc = "loop"
    /\ section_idx > Len(FormSections)
    /\ result' = FinishComparison(result, total_score, total_weight,
                                  contract_text, typical_form)
    /\ pc' = "done"
    /\ UNCHANGED <<hash_secret, contract_text, typical_form, contract_sections,
                   section_idx, total_score, total_weight, zone_vars,
                   custom_typical_forms, other_analysis, app_vars>>

(* the call has returned and its frame is gone *)
ReturnComparison ==
    /\ pc = "done"
    /\ pc' = "idle"
    /\ contract_text' = << >>
    /\ typical_form' = None
    /\ contract_sections' = << >>
    /\ section_idx' = 0
    /\ total_score' = 0
    /\ total_weight' = 0
    /\ result' = None
    /\ UNCHANGED <<hash_secret, zone_vars, custom_typical_forms, other_analysis, app_vars>>

Next ==
    \/ \E seed \in HashSeeds : RestartInterpreter(seed)
    \/ \E call \in Analyses : BeginComparison(call[1], call[2])
    \/ CompareNextSection
    \/ EndComparison
    \/ ReturnComparison

Spec == Init /\ [][Next]_vars

(* the button that determines the zone: the input is built from the form
   fields and the result of determine_risk_zone is stored in the session *)
DetermineZone ==
    /\ zone_calls < MaxCalls
    /\ zone_calls' = zone_calls + 1
    /\ heap' = ZoneCall(heap, form_fields)[1]
    /\ zone_object' = ZoneCall(heap, form_fields)[2]
    /\ zone_result' = ResultValue(heap', zone_object', determine_risk_zone(form_fields))
    /\ current_input' = form_fields
    /\ earlier_result' = zone_result
    /\ earlier_object' = zone_object
    /\ UNCHANGED <<hash_secret, comparison_vars, form_fields, custom_typical_forms, other_analysis, app_vars>>

(* the classifier on its own: the widgets hold any input of AnalysisInputs *)
ZoneInit ==
    /\ NewSession
    /\ form_fields \in AnalysisInputs

ZoneNext == DetermineZone

ZoneSpec == ZoneInit /\ [][ZoneNext]_vars

(* the user changes the input widgets of the page *)
EditForm(inp) ==
    /\ form_fields # inp
    /\ form_fields' = inp
    /\ UNCHANGED <<hash_secret, comparison_vars, current_input, zone_result, heap,
                   zone_object, earlier_result, earlier_object, zone_calls,
                   custom_typical_forms, other_analysis, app_vars>>

(* a session of the zone page: the user edits the form and presses the
   button, again and again *)
ZoneSessionNext ==
    \/ \E inp \in SessionInputs : EditForm(inp)
    \/ DetermineZone

ZoneSessionSpec == Init /\ [][ZoneSessionNext]_vars

(* the typical forms page: a file is uploaded and parsed; with the keys
   "name" and "sections" it is stored under its code, or under USER-n when it
   has none; any other file is refused and nothing is stored *)
UserCode(forms) == "USER-" \o ToString(Len(forms) + 1)

UploadTypicalForm(tf_data) ==
    /\ pc = "idle"
    /\ Len(custom_typical_forms) < MaxForms
    /\ custom_typical_forms' =
           IF "name" \in DOMAIN tf_data /\ "sections" \in DOMAIN tf_data
           THEN DictSet(custom_typical_forms,
                        DictGet(tf_data, "code", UserCode(custom_typical_forms)),
                        tf_data)
           ELSE custom_typical_forms
    /\ UNCHANGED <<hash_secret, comparison_vars, zone_vars, other_analysis, app_vars>>

(* the analysis page lists the forms by name and code *)
FormOptions == \A k \in 1..Len(custom_typical_forms) :
                   /\ "name" \in DOMAIN custom_typical_forms[k][2]
                   /\ "code" \in DOMAIN custom_typical_forms[k][2]

MinTextLen == 100

(* the comparison button: for a text of at least 100 characters and a
   selected form, full_comparison is called with that form *)
CompareWithTypicalForm(text, selected_tf_key) ==
    /\ FormOptions
    /\ Len(text) >= MinTextLen
    /\ DictHas(custom_typical_forms, selected_tf_key)
    /\ BeginComparison(text, DictAt(custom_typical_forms, selected_tf_key))

FormsNext ==
    \/ \E tf_data \in Uploads : UploadTypicalForm(tf_data)
    \/ \E text \in PageTexts, k \in 1..Len(custom_typical_forms) :
           CompareWithTypicalForm(text, custom_typical_forms[k][1])
    \/ CompareNextSection
    \/ EndComparison
    \/ ReturnComparison

FormsSpec == Init /\ [][FormsNext]_vars

(* the sessions of a process run in threads of their own: while a call of
   full_comparison of this session is in progress, another session calls
   full_comparison on a document of its own, with the forms and the hash seed
   of the process, and keeps the report *)
OtherCall(text, form, hash_seed) ==
    [contract_text |-> text, typical_form |-> form,
     result |-> full_comparison(text, form, hash_seed)]

(* OtherComparison with one fault: the accumulators belong to the class and
   every call starts by resetting them *)
OtherComparisonSharingTotals(text, form) ==
    /\ other_analysis # OtherCall(text, form, hash_secret)
    /\ other_analysis' = OtherCall(text, form, hash_secret)
    /\ total_score' = 0
    /\ total_weight' = 0
    /\ UNCHANGED <<hash_secret, pc, contract_text, typical_form, contract_sections,
                   section_idx, result, zone_vars, custom_typical_forms, app_vars>>

OtherComparison(text, form) ==
    /\ other_analysis # OtherCall(text, form, hash_secret)
    /\ other_analysis' = OtherCall(text, form, hash_secret)
    /\ UNCHANGED <<hash_secret, comparison_vars, zone_vars, custom_typical_forms, app_vars>>

(* the documents of the two sessions *)
T_fee_then_due == T_pay_fee \o <<NL>> \o T_due
T_headed_usd == H_fee \o <<NL>> \o T_pay_usd
OwnAnalyses ==
    {<<T_fee_then_due, FormTwo>>, <<T_terms, FormTerms>>, <<T_headed_usd, FormRisky>>}
OtherAnalyses == {<<T_due, FormDots>>, <<T_pay_usd, FormTwo>>}
(* the inputs of the zone page while the comparisons run *)
ParallelInputs ==
    {AnalysisInput, [AnalysisInput EXCEPT !.deal_type = RED_ZONE_ALWAYS[1]]}

ParallelNext ==
    \/ \E call \in OwnAnalyses : BeginComparison(call[1], call[2])
    \/ CompareNextSection
    \/ EndComparison
    \/ ReturnComparison
    \/ \E call \in OtherAnalyses : OtherComparison(call[1], call[2])
    \/ \E inp \in ParallelInputs : EditForm(inp)
    \/ DetermineZone

ParallelSpec == Init /\ [][ParallelNext]_vars

(* the fields of the page that the classifier is given and does not read:
   the status selectbox, the urgency checkbox and the three text inputs of
   the contract *)
RecordedFields(inp, status, urgent, party, number, day) ==
    [inp EXCEPT !.legal_status = status, !.is_urgent = urgent,
                !.counterparty = party, !.contract_number = number,
                !.contract_date = day]

(* one set of values of those fields, each differing from its default *)
FilledFields(inp, status) ==
    RecordedFields(inp, status, TRUE, "LLC Wagon", "2025/001", "2025-01-01")

(* a green, a yellow and a red input of the page *)
RecordInputs ==
    {AnalysisInput,
     [AnalysisInput EXCEPT !.contract_years = Thresholds.CONTRACT_CONTROL_YEARS + 1],
     [AnalysisInput EXCEPT !.amount = Thresholds.YELLOW_MAX + 1]}

(* each of them as it is, with one recorded field set, and with all set *)
RecordedInputs ==
    UNION {{inp,
            [inp EXCEPT !.legal_status = LegalStatus.REJECTED],
            [inp EXCEPT !.is_urgent = TRUE],
            [inp EXCEPT !.counterparty = "LLC Wagon"],
            [inp EXCEPT !.contract_number = "2025/001"],
            [inp EXCEPT !.contract_date = "2025-01-01"],
            FilledFields(inp, LegalStatus.APPROVED)} : inp \in RecordInputs}

(* a session of the zone page in which the user also fills the recorded
   fields *)
RecordedNext ==
    \/ \E inp \in RecordedInputs : EditForm(inp)
    \/ DetermineZone

RecordedSpec == Init /\ [][RecordedNext]_vars

(* app.py: every step is a change of a widget and the run of the script it
   triggers, for a signed-in administrator *)
program_vars == <<hash_secret, comparison_vars, zone_vars, custom_typical_forms,
                  other_analysis>>

SameFile(a, b) == IF None = a THEN None = b ELSE IF None = b THEN FALSE ELSE a = b

(* the user puts a file into the uploader, or takes the file out *)
ChooseFile(file) ==
    /\ ~SameFile(app_session.uploader, file)
    /\ app_session' = main(Assign(app_session, "uploader", file), FALSE, NoAnswer)[1]
    /\ app_page' = main(Assign(app_session, "uploader", file), FALSE, NoAnswer)[2]
    /\ UNCHANGED program_vars

(* the identify button, shown when the document has a text *)
PressIdentify(answer) ==
    /\ None # render_upload(app_session)[2]
    /\ render_upload(app_session)[2] # << >>
    /\ app_session' = main(app_session, TRUE, answer)[1]
    /\ app_page' = main(app_session, TRUE, answer)[2]
    /\ UNCHANGED program_vars

(* the clear button: clear_analysis and st.rerun *)
PressClear ==
    /\ app_session' = main(clear_analysis(app_session), FALSE, NoAnswer)[1]
    /\ app_page' = main(clear_analysis(app_session), FALSE, NoAnswer)[2]
    /\ <<app_session', app_page'>> # <<app_session, app_page>>
    /\ UNCHANGED program_vars

(* render_settings: the providers with a key, and the selectbox of the
   preferred one, shown for more than one of them, which falls back to
   automatic choice when the preferred provider is not among them *)
ActiveProviders(state) == {pid \in SeqRange(ProviderIds) : HasKey(state.ai_keys, pid)}

PreferredSelectbox(state) ==
    IF Cardinality(ActiveProviders(state)) > 1
       /\ PreferredAI(state) # ""
       /\ PreferredAI(state) \notin ActiveProviders(state)
    THEN Assign(state, "settings", Assign(state.settings, "preferred_ai", ""))
    ELSE state

(* the user changes the key of a provider *)
SetKey(pid, key) ==
    /\ key # DictGet(app_session.ai_keys, pid, "")
    /\ app_session' =
           PreferredSelectbox(
               main(Assign(app_session, "ai_keys", Assign(app_session.ai_keys, pid, key)),
                    FALSE, NoAnswer)[1])
    /\ app_page' = main(app_session, FALSE, NoAnswer)[2]
    /\ UNCHANGED program_vars

(* the user changes the folder id *)
SetFolder(folder) ==
    /\ folder # DictGet(app_session.ai_keys, "yandex_folder_id", "")
    /\ app_session' =
           Assign(main(app_session, FALSE, NoAnswer)[1], "ai_keys",
                  Assign(app_session.ai_keys, "yandex_folder_id", folder))
    /\ app_page' = main(app_session, FALSE, NoAnswer)[2]
    /\ UNCHANGED program_vars

(* the user selects the preferred provider, or automatic choice *)
ChoosePreferred(selected) ==
    /\ Cardinality(ActiveProviders(app_session)) > 1
    /\ selected \in ActiveProviders(app_session) \cup {""}
    /\ selected # PreferredAI(app_session)
    /\ app_session' =
           Assign(main(app_session, FALSE, NoAnswer)[1], "settings",
                  Assign(app_session.settings, "preferred_ai", selected))
    /\ app_page' = main(app_session, FALSE, NoAnswer)[2]
    /\ UNCHANGED program_vars

AppNext ==
    \/ \E file \in Files \cup {None} : ChooseFile(file)
    \/ \E answer \in Answers : PressIdentify(answer)
    \/ PressClear
    \/ \E pid \in KeyHolders, key \in KeyTexts : SetKey(pid, key)
    \/ \E folder \in FolderIds : SetFolder(folder)
    \/ \E selected \in SeqRange(ProviderIds) \cup {""} : ChoosePreferred(selected)

(* the application starts in a new session; the hash seed of the other
   program's interpreter plays no part in it *)
AppInit ==
    /\ Init
    /\ hash_secret = <<T_abc, T_due, T_pay, T_term, T_fee, T_usd, T_tin>>

AppSpec == AppInit /\ [][AppNext]_vars

----------------------------------------------------------------------------
(* Properties of full_comparison, checked under Spec *)

RECURSIVE SeqSum(_)
SeqSum(xs) == IF xs = << >> THEN 0 ELSE Head(xs) + SeqSum(Tail(xs))

(* the findings of a report with a given level: those of its sections and the
   global ones *)
FindingsAt(findings, level) ==
    Cardinality({j \in 1..Len(findings) : findings[j].risk_level = level})
ReportFindings(r, level) ==
    SeqSum([i \in 1..Len(r.sections_analysis) |->
               FindingsAt(r.sections_analysis[i].risks, level)])
    + FindingsAt(r.global_risks, level)

(* 2 for a required section and 1 for an optional one *)
ReportWeight(r) ==
    SeqSum([i \in 1..Len(r.sections_analysis) |->
               IF r.sections_analysis[i].required THEN 2 ELSE 1])

(* ten times the contribution of the sections: weight times 1.0, 0.6, 0.3, 0 *)
StatusTenths(status) ==
    CASE status = "match" -> 10
      [] status = "partial" -> 6
      [] status = "deviation" -> 3
      [] status = "missing" -> 0
ReportContribution(r) ==
    SeqSum([i \in 1..Len(r.sections_analysis) |->
               (IF r.sections_analysis[i].required THEN 2 ELSE 1)
               * StatusTenths(r.sections_analysis[i].comparison.status)])

ReportPenalty(r) == 15 * ReportFindings(r, "red") + 5 * ReportFindings(r, "yellow")

(* C1: the compliance_score that full_comparison holds and returns is a number
   from 0 to 100, for every text and every form *)
ScoreInRange ==
    pc \in {"loop", "done"} =>
        /\ result.compliance_score.den > 0
        /\ result.compliance_score.num >= 0
        /\ result.compliance_score.num <= 100 * result.compliance_score.den

(* a returned report whose penalty exceeds its base score, which is not 0 *)
ScoreClampedAtZero ==
    /\ pc = "done"
    /\ total_score > 0
    /\ 100 * total_score < RiskPenalty(result.risks) * total_weight
    /\ result.compliance_score.num = 0

(* C2: for a form with sections the returned compliance_score is
   max(0, 100 * contributions / total_weight - (15 * red + 5 * yellow)), the
   weights, the contributions and the findings being those of the report *)
ScoreFollowsFormula ==
    (pc = "done" /\ Len(result.sections_analysis) > 0) =>
        result.compliance_score.num * ReportWeight(result)
        = result.compliance_score.den
          * MaxOf(0, 10 * ReportContribution(result)
                     - ReportPenalty(result) * ReportWeight(result))

(* a returned report with a required and an optional section, a partial
   section, a red and a yellow finding and a score above 0 *)
ScoreOfMixedReport ==
    /\ pc = "done"
    /\ Len(result.sections_analysis) = 2
    /\ result.partial_sections # << >>
    /\ ReportFindings(result, "red") > 0
    /\ ReportFindings(result, "yellow") > 0
    /\ result.compliance_score.num > 0

(* every template section is matched to a contract section whose body is the
   text of its template, and every contract section is matched *)
BodiesEqualTemplates ==
    /\ Len(result.sections_analysis) > 0
    /\ \A i \in 1..Len(result.sections_analysis) :
          /\ result.sections_analysis[i].matched_in_contract # None
          /\ DictAt(contract_sections, result.sections_analysis[i].matched_in_contract)
             = FormSections[i][2].template
    /\ \A k \in 1..Len(contract_sections) :
          \E i \in 1..Len(result.sections_analysis) :
              result.sections_analysis[i].matched_in_contract = contract_sections[k][1]

(* C3: when every contract section's body equals the template text of its
   template section and no risk rule fires, the returned compliance_score is
   at least 80 *)
ExactCopyScoresHigh ==
    (pc = "done" /\ BodiesEqualTemplates /\ result.risks = << >>) =>
        RatGeq(result.compliance_score, 80)

(* C4: for the empty text extract_sections gives the PREAMBLE alone, with an
   empty body; every required section of the form is then reported missing
   and the returned compliance_score is 0 *)
EmptyTextAllMissing ==
    (pc \in {"loop", "done"} /\ contract_text = << >>) =>
        /\ contract_sections = << <<PREAMBULA, << >>>> >>
        /\ pc = "done" =>
              /\ Len(result.sections_analysis) = Len(FormSections)
              /\ \A i \in 1..Len(FormSections) :
                    FormSections[i][2].required =>
                        /\ result.sections_analysis[i].comparison.status = "missing"
                        /\ InList(FormSections[i][1], result.missing_sections)
              /\ result.compliance_score.num = 0

(* the report of the empty text against a form with a required section *)
EmptyTextReported ==
    /\ pc = "done"
    /\ contract_text = << >>
    /\ \E i \in 1..Len(FormSections) : FormSections[i][2].required
    /\ Len(result.missing_sections) = Len(FormSections)

(* what C5 compares of a report *)
ReportView(r) ==
    [statuses |-> [i \in 1..Len(r.sections_analysis) |->
                      r.sections_analysis[i].comparison.status],
     matched |-> [i \in 1..Len(r.sections_analysis) |->
                     r.sections_analysis[i].matched_in_contract],
     findings |-> r.risks,
     score |-> r.compliance_score,
     recommendations |-> r.recommendations,
     summary |-> r.summary]

(* C5: the report returned for a text and a form is the report that every run
   on that text and that form returns, whatever the interpreter that runs it
   and whatever it ran before *)
ReportIsDeterministic ==
    pc = "done" =>
        \A seed \in HashSeeds :
            ReportView(result)
            = ReportView(full_comparison(contract_text, typical_form, seed))

(* the findings of one scan against its rules: a rule whose pattern occurs in
   the lowered text has exactly one finding, at the first occurrence, and a
   rule whose pattern does not occur has none *)
OneFindingPerRule(findings, text, rules) ==
    \A k \in 1..Len(rules) :
        LET of_rule == {j \in 1..Len(findings) : findings[j].issue = rules[k].issue}
            occ == Occurrences(rules[k].pattern, str_lower(text))
        IN  IF occ = {} THEN of_rule = {}
            ELSE /\ Cardinality(of_rule) = 1
                 /\ \A j \in of_rule : findings[j].position = SetMin(occ)

(* C6: check_risk_patterns gives at most one finding per rule, at the first
   occurrence of its pattern, and none for a pattern that does not occur: in
   the global scan of the text and in the scan of every matched section *)
FirstMatchOnly ==
    pc = "done" =>
        /\ OneFindingPerRule(result.global_risks, contract_text,
                             typical_form.global_risk_patterns)
        /\ \A i \in 1..Len(result.sections_analysis) :
              result.sections_analysis[i].matched_in_contract # None =>
                  OneFindingPerRule(
                      result.sections_analysis[i].risks,
                      DictAt(contract_sections,
                             result.sections_analysis[i].matched_in_contract),
                      FormSections[i][2].risk_patterns)

(* a global rule whose pattern occurs three times in the text, with its one
   finding at the first of them *)
ThreeOccurrencesOneFinding ==
    /\ pc = "done"
    /\ \E k \in 1..Len(typical_form.global_risk_patterns) :
          /\ Cardinality(Occurrences(typical_form.global_risk_patterns[k].pattern,
                                     str_lower(contract_text))) = 3
          /\ Cardinality({j \in 1..Len(result.global_risks) :
                 result.global_risks[j].issue
                 = typical_form.global_risk_patterns[k].issue}) = 1

----------------------------------------------------------------------------
(* Properties of determine_risk_zone, checked under ZoneSpec *)

(* the button has been pressed: zone_result is the result for current_input *)
ZoneDetermined == None # zone_result

InAlwaysRedDeals(inp) == \E i \in 1..Len(RED_ZONE_ALWAYS) : inp.deal_type = RED_ZONE_ALWAYS[i]
InAlwaysRedDocuments(inp) ==
    \E i \in 1..Len(RED_DOCUMENTS_ALWAYS) : inp.document_type = RED_DOCUMENTS_ALWAYS[i]
InYellowDeals(inp) == \E i \in 1..Len(YELLOW_ZONE_TYPES) : inp.deal_type = YELLOW_ZONE_TYPES[i]

(* no red rule applies to the input *)
NoRedRule(inp) ==
    /\ ~InAlwaysRedDeals(inp)
    /\ ~InAlwaysRedDocuments(inp)
    /\ ~(inp.is_tender /\ inp.tender_amount > 3000000)
    /\ ~(inp.amount > 5000000)

(* no yellow trigger applies to the input *)
NoYellowTrigger(inp) ==
    /\ ~InYellowDeals(inp)
    /\ ~(inp.is_single_supplier /\ inp.amount > 100000)
    /\ ~(inp.contract_years > 3)
    /\ inp.document_form = "typical" => inp.amount <= 100000
    /\ inp.document_form \in {"counterparty", "free", "self"} => inp.amount <= 50000
    /\ inp.document_form = "modified_tf" =>
          (~inp.changes_essential /\ inp.amount <= 50000)

(* C7: determine_risk_zone gives every input a result with one zone of green,
   yellow and red, and the zone is green when no red rule and no yellow
   trigger applies *)
ZoneIsTotal ==
    ZoneDetermined =>
        /\ zone_result.zone \in {"green", "yellow", "red"}
        /\ (NoRedRule(current_input) /\ NoYellowTrigger(current_input)) =>
              zone_result.zone = "green"

(* a green result for a counterparty form at the threshold of 50,000 with a
   tender of exactly 3,000,000 *)
GreenAtThresholds ==
    /\ ZoneDetermined
    /\ current_input.document_form = "counterparty"
    /\ current_input.amount = 50000
    /\ current_input.is_tender
    /\ current_input.tender_amount = 3000000
    /\ zone_result.zone = "green"

(* C8: a deal type of the always-red list gives red with the deadline of 10
   days, legal review required and the planning-stage route, whatever the
   other fields *)
RedDealTakesPrecedence ==
    (ZoneDetermined /\ InAlwaysRedDeals(current_input)) =>
        /\ zone_result.zone = "red"
        /\ zone_result.deadline_days = 10
        /\ zone_result.requires_legal
        /\ zone_result.approval_route
           = <<"Legal department (planning stage)", "Joint work">>

(* an always-red deal together with an always-red document, a tender above
   3,000,000 and an amount above 5,000,000 *)
RedDealOverAllRules ==
    /\ ZoneDetermined
    /\ InAlwaysRedDeals(current_input)
    /\ InAlwaysRedDocuments(current_input)
    /\ current_input.is_tender /\ current_input.tender_amount > 3000000
    /\ current_input.amount > 5000000
    /\ zone_result.deadline_days = 10

(* C9: without an always-red deal type, a document type of the always-red
   list gives red with the deadline of 1 day and the warning of immediate
   escalation, whatever the amount, the tender and the form *)
RedDocumentIsUrgent ==
    (/\ ZoneDetermined
     /\ ~InAlwaysRedDeals(current_input)
     /\ InAlwaysRedDocuments(current_input)) =>
        /\ zone_result.zone = "red"
        /\ zone_result.deadline_days = 1
        /\ zone_result.warnings = <<"IMMEDIATE involvement of the legal department!">>

(* an always-red document with a tender above 3,000,000 and an amount above
   5,000,000, and the deadline of 1 day *)
RedDocumentOverLaterRules ==
    /\ ZoneDetermined
    /\ ~InAlwaysRedDeals(current_input)
    /\ InAlwaysRedDocuments(current_input)
    /\ current_input.is_tender /\ current_input.tender_amount > 3000000
    /\ current_input.amount > 5000000
    /\ zone_result.deadline_days = 1

(* the result is the one of the tender rule *)
DecidedByTenderRule == zone_result.zone_reason = <<"Tender > 3 000 000 rub.">>

(* C10: when rules 1 and 2 do not match, the tender rule decides, and gives
   red, exactly when is_tender is set and tender_amount is above 3,000,000 *)
TenderRuleIsStrict ==
    (/\ ZoneDetermined
     /\ ~InAlwaysRedDeals(current_input)
     /\ ~InAlwaysRedDocuments(current_input)) =>
        /\ DecidedByTenderRule
           <=> (current_input.is_tender /\ current_input.tender_amount > 3000000)
        /\ DecidedByTenderRule => zone_result.zone = "red"

(* a tender of exactly 3,000,000 that the tender rule leaves alone: the
   result is not red *)
TenderAtThresholdNotRed ==
    /\ ZoneDetermined
    /\ current_input.is_tender
    /\ current_input.tender_amount = 3000000
    /\ ~DecidedByTenderRule
    /\ zone_result.zone # "red"

(* rules 1 to 3 do not match the input *)
NoEarlierRedRule(inp) ==
    /\ ~InAlwaysRedDeals(inp)
    /\ ~InAlwaysRedDocuments(inp)
    /\ ~(inp.is_tender /\ inp.tender_amount > 3000000)

(* the result is the one of the amount rule *)
DecidedByAmountRule == zone_result.red_flags = << <<"Amount > 5 mln rub.">> >>

(* C11: when rules 1 to 3 do not match, the amount rule decides exactly when
   amount is above 5,000,000, and the result is then red with the deadline of
   10 days; an amount of 5,000,000 is not red *)
AmountRuleIsStrict ==
    (ZoneDetermined /\ NoEarlierRedRule(current_input)) =>
        /\ DecidedByAmountRule <=> current_input.amount > 5000000
        /\ zone_result.zone = "red" <=> current_input.amount > 5000000
        /\ current_input.amount > 5000000 => zone_result.deadline_days = 10

(* an amount of exactly 5,000,000 that no red rule takes: the result is
   yellow *)
AmountAtThresholdNotRed ==
    /\ ZoneDetermined
    /\ NoEarlierRedRule(current_input)
    /\ current_input.amount = 5000000
    /\ ~DecidedByAmountRule
    /\ zone_result.zone = "yellow"

(* a yellow trigger other than the one of the document form *)
OtherYellowTrigger(inp) ==
    \/ InYellowDeals(inp)
    \/ inp.is_single_supplier /\ inp.amount > 100000
    \/ inp.contract_years > 3

(* C12 as stated: for the typical form with no red rule matching, an amount
   of 100,000 gives green and an amount of 100,001 gives yellow *)
TypicalBoundaryAsStated ==
    (/\ ZoneDetermined
     /\ NoRedRule(current_input)
     /\ current_input.document_form = "typical") =>
        /\ current_input.amount = 100000 => zone_result.zone = "green"
        /\ current_input.amount = 100001 => zone_result.zone = "yellow"

(* C12 as amended: for the typical form with no red rule matching, an amount
   of 100,001 gives yellow, and an amount of 100,000 gives green when no
   other yellow trigger fires (yellow deal category, contract duration above
   3 years) and yellow when one does *)
TypicalBoundary ==
    (/\ ZoneDetermined
     /\ NoRedRule(current_input)
     /\ current_input.document_form = "typical") =>
        /\ current_input.amount = 100001 => zone_result.zone = "yellow"
        /\ current_input.amount = 100000 =>
              IF OtherYellowTrigger(current_input)
              THEN zone_result.zone = "yellow"
              ELSE zone_result.zone = "green"

(* the typical form at 100,000 with a contract of more than 3 years: yellow *)
TypicalAtThresholdYellowByYears ==
    /\ ZoneDetermined
    /\ NoRedRule(current_input)
    /\ current_input.document_form = "typical"
    /\ current_input.amount = 100000
    /\ current_input.contract_years > 3
    /\ ~InYellowDeals(current_input)
    /\ zone_result.zone = "yellow"

(* the form-specific trigger fired: its flag is among the yellow flags *)
FormTriggerFired ==
    \E i \in 1..Len(zone_result.yellow_flags) :
        zone_result.yellow_flags[i] \in {<<"Non-typical > 50K">>,
                                         <<"Essential changes of the TF">>,
                                         <<"Changes of the TF > 50K">>}

(* C13: with no red rule matching, the trigger of the counterparty, free and
   self-developed forms fires exactly when amount is above 50,000; the one
   of the modified typical form fires when changes_essential is set,
   whatever the amount, and otherwise exactly when amount is above 50,000 *)
NonTypicalFormTriggers ==
    (ZoneDetermined /\ NoRedRule(current_input)) =>
        /\ current_input.document_form \in {"counterparty", "free", "self"} =>
              (FormTriggerFired <=> current_input.amount > 50000)
        /\ current_input.document_form = "modified_tf" =>
              (FormTriggerFired <=>
                  (current_input.changes_essential \/ current_input.amount > 50000))

(* a self-developed form at 50,001 whose only trigger is the form's, and the
   result is yellow *)
SelfDevelopedJustAbove ==
    /\ ZoneDetermined
    /\ NoRedRule(current_input)
    /\ current_input.document_form = "self"
    /\ current_input.amount = 50001
    /\ ~OtherYellowTrigger(current_input)
    /\ FormTriggerFired
    /\ zone_result.zone = "yellow"

(* C14: when none of the red rules matches and a yellow trigger fires, the
   result is yellow with the deadline of 5 days, legal review required and
   the warning that signing is forbidden before the legal department's
   visa *)
YellowWhenTriggered ==
    (/\ ZoneDetermined
     /\ NoRedRule(current_input)
     /\ ~NoYellowTrigger(current_input)) =>
        /\ zone_result.zone = "yellow"
        /\ zone_result.deadline_days = 5
        /\ zone_result.requires_legal
        /\ zone_result.warnings
           = <<"Signing is FORBIDDEN before the visa of the legal department!">>

(* a yellow result whose only trigger is the single supplier above 100,000 *)
YellowBySingleSupplier ==
    /\ ZoneDetermined
    /\ NoRedRule(current_input)
    /\ current_input.is_single_supplier
    /\ current_input.amount > 100000
    /\ current_input.document_form = "modified_tf"
    /\ zone_result.yellow_flags = << <<"Single supplier">>, <<"Changes of the TF > 50K">> >>
    /\ zone_result.deadline_days = 5

(* C15: when no red rule matches and no yellow trigger fires, the result is
   green with deadline 0, legal review not required and the route
   initiator, manager, signing *)
GreenByDefault ==
    (/\ ZoneDetermined
     /\ NoRedRule(current_input)
     /\ NoYellowTrigger(current_input)) =>
        /\ zone_result.zone = "green"
        /\ zone_result.deadline_days = 0
        /\ ~zone_result.requires_legal
        /\ zone_result.approval_route = <<"Initiator -> Manager -> Signing">>

(* a green result for a modified typical form at 50,000 and 3 years, with a
   tender whose amount is above 3,000,000 but is_tender unset *)
GreenModifiedForm ==
    /\ ZoneDetermined
    /\ current_input.document_form = "modified_tf"
    /\ current_input.amount = 50000
    /\ current_input.contract_years = 3
    /\ ~current_input.is_tender /\ current_input.tender_amount > 3000000
    /\ zone_result.zone = "green"
    /\ zone_result.deadline_days = 0

(* the flag list of the result's own zone *)
FlagsOfZone(res) ==
    CASE res.zone = "red" -> res.red_flags
      [] res.zone = "yellow" -> res.yellow_flags
      [] res.zone = "green" -> res.green_flags

(* C16: whichever rule decides, the result has a zone, a reason that is not
   empty, a deadline, a responsible party, an approval route, a list of
   required documents and the flags of its zone *)
ResultIsPopulated ==
    ZoneDetermined =>
        /\ zone_result.zone \in {"green", "yellow", "red"}
        /\ zone_result.zone_reason # << >>
        /\ zone_result.deadline_days \in {0, 1, 5, 10}
        /\ zone_result.responsible # ""
        /\ zone_result.approval_route # << >>
        /\ zone_result.required_documents # << >>
        /\ FlagsOfZone(zone_result) # << >>

----------------------------------------------------------------------------
(* Properties of the calls of determine_risk_zone in a session, checked under
   ZoneSessionSpec *)

(* the addresses of the lists of a result *)
AddressesOf(refs) == {refs[k] : k \in 1..Len(refs)}

(* the result in the session is the function's value for the input it was
   called with, none of its lists is a list of the result before, and the
   result before still reads as it was returned *)
PureResult ==
    ZoneDetermined =>
        /\ zone_result = determine_risk_zone(current_input)
        /\ AddressesOf(zone_object) \cap AddressesOf(earlier_object) = {}
        /\ (None # earlier_result) =>
              ResultValue(heap, earlier_object, earlier_result) = earlier_result

(* a call leaves its input, the interpreter and the comparison alone, and
   the input stored with the result is the one it was called with *)
CallFrame ==
    zone_calls' # zone_calls =>
        /\ form_fields' = form_fields
        /\ current_input' = form_fields
        /\ UNCHANGED <<hash_secret, comparison_vars, custom_typical_forms, other_analysis, app_vars>>

(* C17: determine_risk_zone is a pure function of its input: a call returns
   the value of the input whatever calls were made before, its result shares
   no list with an earlier result, which stays as it was, and the call
   changes neither its input nor other state *)
ZoneFunctionIsPure == []PureResult /\ [][CallFrame]_vars

(* two calls in a row with the same red input: equal results in different
   lists *)
SameInputTwice ==
    /\ zone_calls = 2
    /\ None # earlier_result
    /\ earlier_result = zone_result
    /\ zone_result.red_flags # << >>
    /\ AddressesOf(zone_object) # AddressesOf(earlier_object)

----------------------------------------------------------------------------
(* Properties of the loaded typical forms, checked under FormsSpec *)

(* the severity the scan gives a rule is red or yellow *)
ValidSeverity(rule) == DictGet(rule, "risk", "yellow") \in {"red", "yellow"}

RulesOf(form) ==
    {DictGet(form, "global_risk_patterns", << >>)[i] :
         i \in 1..Len(DictGet(form, "global_risk_patterns", << >>))}
    \cup UNION {{DictGet(form.sections[k][2], "risk_patterns", << >>)[i] :
                     i \in 1..Len(DictGet(form.sections[k][2], "risk_patterns", << >>))} :
                k \in 1..Len(form.sections)}

WellFormedRules(form) == \A rule \in RulesOf(form) : ValidSeverity(rule)

FindingsCounted(res) ==
    \A i \in 1..Len(res.risks) : res.risks[i].risk_level \in {"red", "yellow"}

(* C18: a form with a rule whose severity is neither red nor yellow is
   refused when it is loaded: no such form is in the session, no call of
   full_comparison runs with one, and no report holds a finding of a level
   the score does not count *)
MalformedRulesRejected ==
    /\ \A k \in 1..Len(custom_typical_forms) :
           WellFormedRules(custom_typical_forms[k][2])
    /\ None # typical_form => WellFormedRules(typical_form)
    /\ None # result => FindingsCounted(result)

----------------------------------------------------------------------------
(* Properties of extract_sections, checked under Spec on the sections of the
   call in progress *)

TextLines == str_split(contract_text, NL)
HeadingLines == {i \in 1..Len(TextLines) : MatchHeading(TextLines[i]).matched}
(* the text before the first recognized heading *)
TextBeforeHeadings == str_join(SubSeq(TextLines, 1, SetMin(HeadingLines) - 1), <<NL>>)

(* C19 as stated: the text before the first heading is the body of PREAMBLE,
   and a text without a heading gives the single section PREAMBLE whose body
   is the whole text *)
PreambleHoldsWholeText ==
    pc # "idle" =>
        IF HeadingLines = {}
        THEN contract_sections = << <<PREAMBULA, contract_text>> >>
        ELSE SetMin(HeadingLines) > 1 =>
                 /\ DictHas(contract_sections, PREAMBULA)
                 /\ DictAt(contract_sections, PREAMBULA) = TextBeforeHeadings

(* C19: extract_sections gives a result for every text; the text before the
   first heading, without its leading and trailing whitespace, is the body of
   PREAMBLE, and a text without a heading gives the single section PREAMBLE
   whose body is the whole text without its leading and trailing whitespace *)
PreambleHoldsStrippedText ==
    pc # "idle" =>
        IF HeadingLines = {}
        THEN contract_sections = << <<PREAMBULA, str_strip(contract_text)>> >>
        ELSE SetMin(HeadingLines) > 1 =>
                 /\ DictHas(contract_sections, PREAMBULA)
                 /\ DictAt(contract_sections, PREAMBULA) = str_strip(TextBeforeHeadings)

(* a blank line and a line of text before the first heading: the body of
   PREAMBLE is the line of text *)
BlankLineBeforePreamble ==
    /\ pc = "loop"
    /\ TextLines = << << >>, T_pay_fee, H_fee >>
    /\ DictAt(contract_sections, PREAMBULA) = T_pay_fee
    /\ DictAt(contract_sections, PREAMBULA) # TextBeforeHeadings

(* the label of the heading in line i, the next heading after it, and the
   lines from it up to the next heading *)
LabelAt(i) == HeadingLabel(MatchHeading(TextLines[i]))
NextHeading(i) == SetMin({j \in HeadingLines : j > i} \cup {Len(TextLines) + 1})
BodyAt(i) == str_strip(str_join(SubSeq(TextLines, i, NextHeading(i) - 1), <<NL>>))
LastWithLabel(i) == \A j \in HeadingLines : j > i => LabelAt(j) # LabelAt(i)
EntriesOf(label) == {k \in 1..Len(contract_sections) : contract_sections[k][1] = label}

(* C20: a label that heads more than one line has one entry, and its body is
   the body of the last of these lines *)
LaterHeadingReplaces ==
    pc # "idle" =>
        \A i \in HeadingLines, j \in HeadingLines :
            (i < j /\ LabelAt(i) = LabelAt(j) /\ LastWithLabel(j)) =>
                /\ Cardinality(EntriesOf(LabelAt(j))) = 1
                /\ DictAt(contract_sections, LabelAt(j)) = BodyAt(j)

(* the same heading in the first and the last line with a line of text
   between them: the one entry holds the last line only *)
RepeatedHeadingKeepsLast ==
    /\ pc = "loop"
    /\ TextLines = <<H_fee, T_pay_fee, H_fee>>
    /\ BodyAt(1) = H_fee \o <<NL>> \o T_pay_fee
    /\ contract_sections = << <<N_fee, H_fee>> >>

----------------------------------------------------------------------------
(* Properties of compare_section and find_best_matching_section, checked
   under Spec on the comparisons of the report *)

InUnitInterval(x) == 0 <= x /\ x <= Scale

MetricsOf(c) ==
    <<c.similarity_scores.jaccard_words, c.similarity_scores.jaccard_bigrams,
      c.similarity_scores.overlap, c.similarity_scores.levenshtein,
      c.similarity_scores.cosine_tfidf, c.keyword_score>>

MetricWeights == <<15, 20, 15, 20, 15, 15>>

(* C21: the combined score of a located section is the sum of its six metrics
   weighted by 0.15, 0.20, 0.15, 0.20, 0.15, 0.15, weights that sum to 1, and
   every metric and the combined score lie in [0, 1] *)
MetricsInUnitInterval ==
    None # result =>
        \A i \in 1..Len(result.sections_analysis) :
            result.sections_analysis[i].comparison.found =>
                /\ SeqSum(MetricWeights) = 100
                /\ result.sections_analysis[i].comparison.combined_score
                   = SeqSum([k \in 1..6 |->
                        MetricWeights[k]
                        * MetricsOf(result.sections_analysis[i].comparison)[k]])
                /\ \A k \in 1..6 :
                       InUnitInterval(MetricsOf(result.sections_analysis[i].comparison)[k])
                /\ result.sections_analysis[i].comparison.combined_score <= 100 * Scale
                /\ result.sections_analysis[i].comparison.combined_score >= 0

(* the contract section a template section was matched with has a body *)
Located(a) ==
    /\ None # a.matched_in_contract
    /\ DictHas(contract_sections, a.matched_in_contract)
    /\ DictAt(contract_sections, a.matched_in_contract) # << >>

StatusByScore(c) ==
    /\ c.status = "match" <=> c.combined_score >= 70 * Scale
    /\ c.status = "partial" <=>
           (40 * Scale <= c.combined_score /\ c.combined_score < 70 * Scale)
    /\ c.status = "deviation" <=> c.combined_score < 40 * Scale

(* C22: the status of a located section follows its combined score, match
   from 0.70 and partial from 0.40, both inclusive, and deviation below; a
   section that was not located, for want of a contract section or of a body,
   is missing, and deviation is given to located sections only *)
StatusFollowsScore ==
    None # result =>
        \A i \in 1..Len(result.sections_analysis) :
            /\ result.sections_analysis[i].comparison.found =>
                   StatusByScore(result.sections_analysis[i].comparison)
            /\ ~Located(result.sections_analysis[i]) =>
                   result.sections_analysis[i].comparison.status = "missing"
            /\ result.sections_analysis[i].comparison.status = "deviation" =>
                   Located(result.sections_analysis[i])

(* a section whose combined score is exactly 0.70 is a match *)
MatchAtThreshold ==
    /\ pc = "done"
    /\ typical_form = FormDots
    /\ result.sections_analysis[1].comparison.combined_score = 70 * Scale
    /\ result.sections_analysis[1].comparison.status = "match"
    /\ Located(result.sections_analysis[1])

(* the total of contract section k for template section i, computed apart
   from the loop: 0.7 * combined_score + 0.3 * name_similarity *)
NameSimilarity(k, i) ==
    levenshtein_ratio(str_lower(StripNumbering(FormSections[i][1])),
                      str_lower(StripNumbering(contract_sections[k][1])))
ComparisonOf(k, i) ==
    compare_section(contract_sections[k][2],
                    DictGet(FormSections[i][2], "template", << >>),
                    DictGet(FormSections[i][2], "keywords", << >>), hash_secret)
TotalOf(k, i) == TotalScore(ComparisonOf(k, i), NameSimilarity(k, i))
MaxTotal(i) == SetMax({TotalOf(k, i) : k \in 1..Len(contract_sections)} \cup {0})
(* the contract sections whose total is the maximum, in document order *)
MaxSections(i) == {k \in 1..Len(contract_sections) : TotalOf(k, i) = MaxTotal(i)}

SelectedIs(a, k, i) ==
    /\ a.matched_in_contract = contract_sections[k][1]
    /\ a.comparison = ComparisonOf(k, i) @@
                      [matched_section_name |-> contract_sections[k][1],
                       name_similarity |-> NameSimilarity(k, i)]

(* C23 as stated: whenever the contract has a section, the section with the
   maximum total, the earliest of them, is selected and its comparison
   attached *)
SelectsMaximum ==
    (pc = "done" /\ contract_sections # << >>) =>
        \A i \in 1..Len(result.sections_analysis) :
            SelectedIs(result.sections_analysis[i], SetMin(MaxSections(i)), i)

(* C23: the section with the maximum total, the earliest of them, is selected
   and its comparison attached, when that maximum is above 0; when no contract
   section has a total above 0 none is selected *)
SelectsPositiveMaximum ==
    pc = "done" =>
        \A i \in 1..Len(result.sections_analysis) :
            IF MaxTotal(i) > 0
            THEN SelectedIs(result.sections_analysis[i], SetMin(MaxSections(i)), i)
            ELSE result.sections_analysis[i].matched_in_contract = None

(* several contract sections tie for a maximum above 0 and the earliest one
   is the section selected *)
TieGoesToEarliest ==
    /\ pc = "done"
    /\ \E i \in 1..Len(result.sections_analysis) :
           /\ MaxTotal(i) > 0
           /\ Cardinality(MaxSections(i)) > 1
           /\ result.sections_analysis[i].matched_in_contract
              = contract_sections[SetMin(MaxSections(i))][1]
           /\ result.sections_analysis[i].matched_in_contract
              # contract_sections[SetMax(MaxSections(i))][1]

----------------------------------------------------------------------------
(* Properties of analyses that run side by side, checked under ParallelSpec *)

(* each analysis holds the result it has when it runs alone: the report of
   this session's call, the report the other session keeps and the zone
   result of the session *)
AnalysesAreIsolated ==
    /\ pc = "done" => result = full_comparison(contract_text, typical_form, hash_secret)
    /\ None # other_analysis =>
           other_analysis.result = full_comparison(other_analysis.contract_text,
                                                   other_analysis.typical_form,
                                                   hash_secret)
    /\ PureResult

(* no step changes the forms of the session, the text or the form of a call
   in progress, or the text and the form an analysis was made with *)
AnalysisFrame ==
    /\ custom_typical_forms' = custom_typical_forms
    /\ (pc # "idle" /\ pc' # "idle") =>
           (contract_text' = contract_text /\ typical_form' = typical_form)
    /\ pc' = "done" => typical_form' \in {call[2] : call \in OwnAnalyses}
    /\ None # other_analysis' =>
           <<other_analysis'.contract_text, other_analysis'.typical_form>> \in OtherAnalyses

(* C24: analyses share no mutable state: however the steps of a call of
   full_comparison, the calls of another session on another document and the
   calls of determine_risk_zone interleave, each gives the result it gives
   alone, and none changes a form, the forms of the session or a text *)
AnalysesShareNothing == []AnalysesAreIsolated /\ [][AnalysisFrame]_vars

(* both sessions have compared a document of their own with the same form
   and the zone was determined once *)
TwoAnalysesOneForm ==
    /\ pc = "done"
    /\ typical_form = FormTwo
    /\ None # other_analysis
    /\ other_analysis.typical_form = FormTwo
    /\ other_analysis.contract_text # contract_text
    /\ zone_calls = 1

----------------------------------------------------------------------------
(* Further properties of extract_sections and check_risk_patterns, checked
   under Spec *)

(* the headings that are the first with their label, in document order *)
FirstWithLabel(i) == \A j \in HeadingLines : j < i => LabelAt(j) # LabelAt(i)
RECURSIVE LabelsFrom(_)
LabelsFrom(i) ==
    IF i > Len(TextLines) THEN << >>
    ELSE IF i \in HeadingLines /\ FirstWithLabel(i)
    THEN <<LabelAt(i)>> \o LabelsFrom(i + 1)
    ELSE LabelsFrom(i + 1)
LabelsInOrder ==
    (IF 1 \in HeadingLines THEN << >> ELSE <<PREAMBULA>>) \o LabelsFrom(1)

(* the lines after the heading in line i up to the next heading, without
   leading and trailing whitespace *)
LinesAfter(i) ==
    str_strip(str_join(SubSeq(TextLines, i + 1, NextHeading(i) - 1), <<NL>>))

(* C25: the sections come in document order, and the body of a heading is
   made of the lines between it and the next heading or the end of the text,
   the heading line itself not among them *)
BodyFollowsHeading ==
    pc # "idle" =>
        /\ DictKeys(contract_sections) = LabelsInOrder
        /\ \A i \in HeadingLines :
               LastWithLabel(i) =>
                   DictAt(contract_sections, LabelAt(i)) = LinesAfter(i)

(* the rules of the form that apply to the whole text, and those of them
   whose pattern occurs in the text when letter case is set aside *)
GlobalRules == DictGet(typical_form, "global_risk_patterns", << >>)
MatchesAnyCase(rule) == str_contains(str_lower(contract_text), str_lower(rule.pattern))
RuleView(rule) == <<rule.issue, DictGet(rule, "risk", "yellow")>>
FindingView(f) == <<f.issue, f.risk_level>>
ViewsOf(xs, View(_)) == [k \in 1..Len(xs) |-> View(xs[k])]

(* C26: the scan of the whole text gives one finding for each rule whose
   pattern occurs in the text whatever the letter case of either, in rule
   order, with the severity and the issue of the rule and at most 100
   characters of context on each side of the match *)
CaseInsensitiveScan ==
    pc = "done" =>
        /\ ViewsOf(result.global_risks, FindingView)
           = ViewsOf(SelectSeq(GlobalRules, MatchesAnyCase), RuleView)
        /\ \A k \in 1..Len(result.global_risks) :
               Len(result.global_risks[k].context)
               <= 2 * Len(Ellipsis) + 2 * ContextChars
                  + SetMax({Len(GlobalRules[j].pattern) : j \in 1..Len(GlobalRules)})

----------------------------------------------------------------------------
(* The flag lists, the legal review and the deadline of a result against its
   zone, checked under ZoneSpec *)

(* the deadlines a result of the zone may carry *)
DeadlinesOfZone(zone) ==
    CASE zone = RiskZone.GREEN -> {0}
      [] zone = RiskZone.YELLOW -> {Deadlines.STANDARD}
      [] zone = RiskZone.RED -> {Deadlines.URGENT, Deadlines.EXTENDED}

(* C27: in every result red_flags is non-empty exactly when the zone is Red
   and yellow_flags exactly when it is Yellow, legal review is required
   exactly when the zone is not Green, and the deadline is 0 days in Green,
   5 in Yellow and 1 or 10 in Red *)
FlagsAgreeWithZone ==
    ZoneDetermined =>
        /\ (zone_result.red_flags # << >>) <=> (zone_result.zone = RiskZone.RED)
        /\ (zone_result.yellow_flags # << >>) <=> (zone_result.zone = RiskZone.YELLOW)
        /\ zone_result.requires_legal <=> (zone_result.zone # RiskZone.GREEN)
        /\ zone_result.deadline_days \in DeadlinesOfZone(zone_result.zone)

(* a red result of the amount rule for an input that also fires yellow
   triggers: it carries the red flag and no yellow flag *)
RedAmountWithYellowTriggers ==
    /\ ZoneDetermined
    /\ RedByAmount(current_input)
    /\ ~RedByDealType(current_input)
    /\ ~RedByDocumentType(current_input)
    /\ ~RedByTender(current_input)
    /\ YellowTriggers(current_input) # << >>
    /\ zone_result.zone = RiskZone.RED
    /\ zone_result.red_flags # << >>
    /\ zone_result.yellow_flags = << >>
    /\ zone_result.deadline_days = Deadlines.EXTENDED

----------------------------------------------------------------------------
(* The fields the classifier does not read, checked under RecordedSpec *)

LegalStatuses == {LegalStatus[k] : k \in DOMAIN LegalStatus}

(* the inputs that agree with inp on amount, document form, document type,
   deal type, single supplier, tender, tender amount, contract years and
   essential changes *)
SameDecidingFields(inp) ==
    {RecordedFields(inp, status, urgent, party, number, day) :
        status \in LegalStatuses, urgent \in BOOLEAN, party \in {"", "LLC Wagon"},
        number \in {"", "2025/001"}, day \in {"", "2025-01-01"}}

(* the input with the recorded fields at their defaults *)
DecidingFieldsOnly(inp) ==
    RecordedFields(inp, AnalysisInput.legal_status, AnalysisInput.is_urgent,
                   AnalysisInput.counterparty, AnalysisInput.contract_number,
                   AnalysisInput.contract_date)

(* the result on the page is the result of every input with the same
   deciding fields *)
RecordedFieldsIgnored ==
    ZoneDetermined =>
        \A other \in SameDecidingFields(current_input) :
            determine_risk_zone(other) = zone_result

(* a call with an input that differs from the one of the call before only
   in recorded fields returns an equal result *)
SameResultAgain ==
    (/\ zone_calls' # zone_calls
     /\ ZoneDetermined
     /\ DecidingFieldsOnly(form_fields) = DecidingFieldsOnly(current_input))
    => zone_result' = zone_result

(* C28: two inputs that agree on amount, document form, document type, deal
   type, single-supplier flag, tender flag, tender amount, contract years and
   essential-changes flag give equal results, whatever their legal status,
   urgency flag, counterparty, contract number and contract date *)
ZoneIgnoresRecordedFields == []RecordedFieldsIgnored /\ [][SameResultAgain]_vars

(* the yellow result of an input with all five recorded fields filled, equal
   to the result of the call before it, while the form holds another input
   with the same deciding fields *)
FilledInputSameResult ==
    /\ zone_calls = 2
    /\ None # earlier_result
    /\ earlier_result = zone_result
    /\ zone_result.zone = RiskZone.YELLOW
    /\ current_input = FilledFields(DecidingFieldsOnly(current_input), LegalStatus.APPROVED)
    /\ form_fields # current_input
    /\ DecidingFieldsOnly(form_fields) = DecidingFieldsOnly(current_input)

----------------------------------------------------------------------------
(* Properties of app.py, checked under AppSpec *)

(* the history records of a file *)
RecordsOf(filename) ==
    {i \in 1..Len(app_session.history) : app_session.history[i].filename = filename}

(* the document whose identification the page shows has one record *)
DisplayedIsRecorded ==
    None # app_page.card => Cardinality(RecordsOf(app_page.filename)) = 1

(* a run of the script without a button adds no record *)
RerenderAppendsNothing ==
    main(app_session, FALSE, NoAnswer)[1].history = app_session.history

(* C29: every document whose identification is displayed has exactly one
   history record, also a document uploaded and identified after another
   one was recorded and the analysis state was cleared, and rendering the
   same identification again appends nothing *)
EveryIdentificationRecorded == DisplayedIsRecorded /\ RerenderAppendsNothing

(* C30: for every configuration of keys and preferred provider,
   is_configured reports configured exactly when _get_provider returns a
   provider, the provider it names is the one _get_provider selects, and a
   request of call goes to that provider *)
ReportedProviderIsUsed ==
    /\ is_configured(app_session)[1] <=> (_get_provider(app_session)[1] # "")
    /\ is_configured(app_session)[1] =>
           is_configured(app_session)[2]
           = DictAt(AI_PROVIDERS, _get_provider(app_session)[1]).name
    /\ app_page.request # "" =>
           /\ app_page.request = _get_provider(app_session)[1]
           /\ is_configured(app_session)[2] = DictAt(AI_PROVIDERS, app_page.request).name

=============================================================================
